---- MODULE Spec2Model ----
(***************************************************************************)
(* Verification model of CryptoAttacks:                                    *)
(*   - Block/cbc.py        : PaddingOracle.decrypt / fake_ciphertext       *)
(*   - PublicKey/rsa.py    : RSAKey and the RSA attacks                    *)
(* The CBC engine is modelled with one step per oracle call; everything    *)
(* the code does between two oracle calls is part of the step.             *)
(***************************************************************************)
EXTENDS Integers, Sequences, FiniteSets, TLC

(***************************************************************************)
(* Bytes, strings and the Utils helpers used by cbc.py                     *)
(***************************************************************************)
Byte == 0..255

\* PaddingOracle(block_size): the constructor accepts multiples of 8 only
block_size == 8

\* the character 'A' used to fill synthetic ciphertexts and to re-query
CharA == 65

\* None where a byte string is expected (no byte string contains -1)
None == <<-1>>

\* None as previous_resp; the responses of the oracle are 1, 2, ...
NoneResp == 0

RECURSIVE BitXor(_, _, _)
BitXor(a, b, bits) ==
    IF bits = 0 THEN 0
    ELSE ((a + b) % 2) + 2 * BitXor(a \div 2, b \div 2, bits - 1)

XorTab == [a \in Byte |-> [b \in Byte |-> BitXor(a, b, 8)]]

Max(a, b) == IF a >= b THEN a ELSE b

\* xor(a, b): shorter operands are cyclically extended to the longest
xor(a, b) ==
    [i \in 1..Max(Len(a), Len(b)) |->
        XorTab[a[((i - 1) % Len(a)) + 1]][b[((i - 1) % Len(b)) + 1]]]

xor3(a, b, c) ==
    [i \in 1..Max(Len(a), Max(Len(b), Len(c))) |->
        XorTab[XorTab[a[((i - 1) % Len(a)) + 1]][b[((i - 1) % Len(b)) + 1]]]
              [c[((i - 1) % Len(c)) + 1]]]

chr(x) == <<x>>

\* s[lo:hi] of Python for 0 <= lo, hi <= len(s)
Slice(s, lo, hi) == IF hi <= lo THEN <<>> ELSE SubSeq(s, lo + 1, hi)

\* chunks(s, B): ceil(len(s)/B) blocks, the last one may be shorter
chunks(s, B) ==
    [j \in 1..((Len(s) + B - 1) \div B) |->
        Slice(s, (j - 1) * B, IF j * B <= Len(s) THEN j * B ELSE Len(s))]

RECURSIVE join(_)
join(bs) == IF bs = <<>> THEN <<>> ELSE Head(bs) \o join(Tail(bs))

Repeat(x, n) == [i \in 1..n |-> x]

(***************************************************************************)
(* The padding oracle of the environment: CBC under a fixed key with a     *)
(* keyed byte-mixing block permutation, answering PKCS#7 validity.         *)
(***************************************************************************)
SBox(x) == (x * 167 + 13) % 256
SBoxInv(y) == (((y + 256 - 13) % 256) * 23) % 256

BlockDecrypt(K, c) ==
    [i \in 1..block_size |-> SBox(XorTab[c[(i % block_size) + 1]][K[i]])]

BlockEncrypt(K, p) ==
    [j \in 1..block_size |->
        LET i == IF j = 1 THEN block_size ELSE j - 1
        IN  XorTab[SBoxInv(p[i])][K[i]]]

\* plaintext of the data blocks of bs (bs[1] is the IV)
CBCDecrypt(K, bs) ==
    join([j \in 1..(Len(bs) - 1) |-> xor(BlockDecrypt(K, bs[j + 1]), bs[j])])

RECURSIVE CBCEncryptFrom(_, _, _)
CBCEncryptFrom(K, prev, pbs) ==
    IF pbs = <<>> THEN <<>>
    ELSE LET c == BlockEncrypt(K, xor(Head(pbs), prev))
         IN  <<c>> \o CBCEncryptFrom(K, c, Tail(pbs))

\* ciphertext (without the IV) of a padded plaintext
CBCEncrypt(K, iv, pt) == join(CBCEncryptFrom(K, iv, chunks(pt, block_size)))

ValidPadding(p) ==
    \E k \in {p[Len(p)]} :
        /\ k >= 1
        /\ k <= block_size
        /\ \A i \in (Len(p) - k + 1)..Len(p) : p[i] = k

\* oracle(payload, iv, previous_resp): the boolean of the answer
oracle(K, payload, iv) ==
    \E s \in {iv \o payload} :
        \E p \in {xor(BlockDecrypt(K, Slice(s, Len(s) - block_size, Len(s))),
                      Slice(s, Len(s) - 2 * block_size, Len(s) - block_size))} :
            ValidPadding(p)

(***************************************************************************)
(* State                                                                   *)
(***************************************************************************)
VARIABLES
    key,      \* secret key of the oracle (environment)
    pc,       \* "idle", "decrypt", "fake", "done", "error"
    args,     \* arguments of the running top-level call
    dec,      \* frame of the running PaddingOracle.decrypt call
    fk,       \* frame of the running PaddingOracle.fake_ciphertext call
    orc,      \* the last oracle call: serial number, strings sent, answer
    result,   \* value returned by the top-level call
    keys,     \* the RSAKey objects alive, in order of creation
    heap,     \* the text-pair dicts alive; a key's texts lists positions here
    made,     \* for each key, the call that made it and the key it came from
    par,      \* frame of the running parity call
    ret       \* value returned by the last attack

cbcVars == <<key, pc, args, dec, fk, orc, result>>
rsaVars == <<keys, heap, made, par, ret>>
vars == <<key, pc, args, dec, fk, orc, result, keys, heap, made, par, ret>>

\* blocks[j] and payload_modify[position] of the 0-indexed source
Blk(d, j) == d.blocks[j + 1]
At(s, i) == s[i + 1]

NoDec ==
    [pc |-> "none", blocks |-> <<>>, amount |-> 0, is_correct |-> FALSE,
     plaintext |-> <<>>, count_block |-> 0, payload_modify |-> <<>>,
     position |-> 0, position_known |-> 0, guess_char |-> 0, resp |-> NoneResp]

NoFk ==
    [blocks |-> <<>>, new_pl_blocks |-> <<>>, new_ct_blocks |-> <<>>,
     count_block |-> 0, original_plaintext |-> None,
     original_ciphertext |-> None]

NoOrc ==
    [n |-> 0, sent |-> <<>>, previous_resp |-> NoneResp, correct |-> FALSE,
     resp |-> NoneResp, kind |-> "none"]

Crash(d) == [d EXCEPT !.pc = "error"]

\* header of `for count_block in xrange(len(blocks)-1, amount, -1)` with
\* d.count_block the next value, then lines 89-100
StartBlock(d) ==
    IF d.count_block > d.amount
    THEN [d EXCEPT !.payload_modify = Blk(d, d.count_block - 1),
                   !.position = block_size - 1 - d.position_known,
                   !.position_known = 0,
                   !.guess_char = 0,
                   !.pc = "guess"]
    ELSE [d EXCEPT !.pc = "return"]

\* header of `while position >= 0`
LoopWhile(d) ==
    IF d.position >= 0
    THEN [d EXCEPT !.guess_char = 0, !.pc = "guess"]
    ELSE StartBlock([d EXCEPT !.count_block = @ - 1])

\* lines 156-164: after the for loop over guess_char
AfterFor(d, found_correct_char) ==
    LET d1 == [d EXCEPT !.position = @ - 1]
        pos == d1.position
    IN  IF found_correct_char THEN LoopWhile(d1)
        ELSE IF d.is_correct
        THEN LoopWhile([d1 EXCEPT
                 !.payload_modify =
                     Slice(@, 0, pos + 1)
                       \o xor3(Slice(@, pos + 1, Len(@)), chr(1), chr(2)),
                 !.plaintext = <<1>>,
                 !.is_correct = FALSE])
        ELSE Crash(d1)

\* next iteration of `for guess_char in xrange(256)`
NextGuess(d) ==
    IF d.guess_char < 255
    THEN [d EXCEPT !.guess_char = @ + 1, !.pc = "guess"]
    ELSE AfterFor(d, FALSE)

\* lines 111-112
Padding(d) == block_size - d.position
DecryptedChar(d) ==
    XorTab[XorTab[At(d.payload_modify, d.position)][d.guess_char]][Padding(d)]

\* lines 148-155
RecordChar(d) ==
    LET pm == d.payload_modify
        pos == d.position
    IN  AfterFor([d EXCEPT
            !.payload_modify =
                Slice(pm, 0, pos)
                  \o xor3(chr(d.guess_char) \o Slice(pm, pos + 1, Len(pm)),
                          chr(Padding(d)), chr(Padding(d) + 1)),
            !.plaintext = chr(DecryptedChar(d)) \o @], TRUE)

\* lines 118-130
FoundPadding(d) ==
    LET dc == DecryptedChar(d)
        pm == d.payload_modify
        last2 == d.blocks[Len(d.blocks) - 1]
    IN  IF d.guess_char = last2[Len(last2)] THEN NextGuess(d)
        ELSE IF dc = 0 \/ dc > block_size THEN Crash(d)
        ELSE AfterFor([d EXCEPT
                 !.plaintext = Repeat(dc, dc),
                 !.payload_modify =
                     Slice(pm, 0, Len(pm) - dc)
                       \o xor3(Slice(pm, Len(pm) - dc, Len(pm)),
                               chr(dc), chr(dc + 1)),
                 !.position = @ - dc + 1,
                 !.is_correct = FALSE], TRUE)

\* lines 101-102: the string sent for the current guess (iv included)
GuessPayload(d) ==
    LET pm == d.payload_modify
        modified == Slice(pm, 0, d.position) \o chr(d.guess_char)
                      \o Slice(pm, d.position + 1, Len(pm))
    IN  join(SubSeq(d.blocks, 1, d.count_block - 1))
          \o modified \o Blk(d, d.count_block)

\* lines 139-140: the string sent to confirm a first-byte guess
ConfirmPayload(d) ==
    LET p == GuessPayload(d)
    IN  Slice(p, 0, Len(p) - block_size - 2) \o chr(CharA)
          \o Slice(p, Len(p) - block_size - 1, Len(p))

\* lines 109-149: what follows an answer to a guess
AfterGuess(d, correct) ==
    IF ~correct THEN NextGuess(d)
    ELSE IF d.is_correct THEN FoundPadding(d)
    ELSE IF d.position = block_size - 1 THEN [d EXCEPT !.pc = "confirm"]
    ELSE RecordChar(d)

\* lines 143-146: what follows an answer to a confirmation
AfterConfirm(d, correct) ==
    IF ~correct THEN NextGuess(d) ELSE RecordChar(d)

\* lines 42-94: decrypt up to its first oracle call
DecryptEnter(ciphertext, iv, is_correct, amount, known_plaintext) ==
    LET blocks0 == IF iv # <<>> THEN <<iv>> \o chunks(ciphertext, block_size)
                   ELSE chunks(ciphertext, block_size)
        amount1 == IF amount # 0 THEN Len(blocks0) - amount - 1 ELSE amount
        d0 == [NoDec EXCEPT !.blocks = blocks0, !.amount = amount1,
                            !.is_correct = is_correct]
        blocks_decoded == Len(known_plaintext) \div block_size
        chars_decoded == Len(known_plaintext) % block_size
        blocks1 == IF blocks_decoded # 0
                   THEN Slice(blocks0, 0, Len(blocks0) - blocks_decoded)
                   ELSE blocks0
        b2 == blocks1[Len(blocks1) - 1]
        blocks2 == IF chars_decoded # 0
                   THEN [blocks1 EXCEPT ![Len(blocks1) - 1] =
                           Slice(b2, 0, Len(b2) - chars_decoded)
                             \o xor3(Slice(known_plaintext, 0, chars_decoded),
                                     Slice(b2, Len(b2) - chars_decoded, Len(b2)),
                                     chr(chars_decoded + 1))]
                   ELSE blocks1
    IN  IF Len(ciphertext) % block_size # 0 THEN Crash(d0)
        ELSE IF iv # <<>> /\ Len(iv) % block_size # 0 THEN Crash(d0)
        ELSE IF amount1 < 0 \/ amount1 >= Len(blocks0) THEN Crash(d0)
        ELSE IF known_plaintext = <<>>
        THEN StartBlock([d0 EXCEPT !.count_block = Len(blocks0) - 1])
        ELSE IF blocks_decoded = Len(blocks0)
        THEN [d0 EXCEPT !.plaintext = known_plaintext, !.pc = "return"]
        ELSE IF blocks_decoded > Len(blocks0) - 1 THEN Crash(d0)
        ELSE IF chars_decoded # 0 /\ Len(blocks1) < 2 THEN Crash(d0)
        ELSE StartBlock([d0 EXCEPT !.is_correct = FALSE,
                                  !.plaintext = known_plaintext,
                                  !.blocks = blocks2,
                                  !.position_known = chars_decoded,
                                  !.count_block = Len(blocks2) - 1])


(***************************************************************************)
(* fake_ciphertext and the return paths.  A machine state m is the record  *)
(* [pc, dec, fk, result]; the operators below run the code that needs no   *)
(* oracle call.                                                            *)
(***************************************************************************)
Truthy(x) == x # None /\ x # <<>>

\* the three decrypt calls of lines 218-226
FakeDecryptCall(f) ==
    LET ct == join(SubSeq(f.new_ct_blocks, 1, f.count_block + 1))
    IN  IF f.original_plaintext = None /\ f.original_ciphertext = None
        THEN DecryptEnter(ct, <<>>, FALSE, 1, <<>>)
        ELSE IF Truthy(f.original_plaintext) /\ Truthy(f.original_ciphertext)
        THEN DecryptEnter(ct, <<>>, TRUE, 1, f.original_plaintext)
        ELSE DecryptEnter(ct, <<>>, TRUE, 1, <<>>)

RECURSIVE Settle(_)
\* header of `for count_block in xrange(len(blocks)-1, 0, -1)` with
\* m.fk.count_block the next value, and lines 233-235 after the loop
FakeIter(m) ==
    IF m.fk.count_block > 0
    THEN Settle([m EXCEPT !.dec = FakeDecryptCall(m.fk)])
    ELSE [m EXCEPT !.pc = "done", !.result = join(m.fk.new_ct_blocks)]

\* lines 229-231 with the plaintext decrypt returned
FakeAfterDecrypt(m) ==
    LET f == m.fk
        cb == f.count_block
    IN  FakeIter([m EXCEPT
            !.fk = [f EXCEPT
                !.new_ct_blocks[cb] =
                    xor3(f.blocks[cb], m.dec.plaintext, f.new_pl_blocks[cb]),
                !.original_plaintext = None,
                !.original_ciphertext = None,
                !.count_block = cb - 1]])

\* run until the next oracle call, the return or the abort of the top call
Settle(m) ==
    IF m.dec.pc \in {"guess", "confirm"} THEN m
    ELSE IF m.dec.pc = "error" THEN [m EXCEPT !.pc = "error"]
    ELSE IF m.pc = "decrypt"
    THEN [m EXCEPT !.pc = "done", !.result = m.dec.plaintext]
    ELSE FakeAfterDecrypt(m)

\* lines 182-214: fake_ciphertext up to its first decrypt call
FakeEnter(new_plaintext, original_ciphertext, iv, original_plaintext) ==
    LET ciphertext == IF original_ciphertext = None
                      THEN Repeat(CharA, Len(new_plaintext) + block_size)
                      ELSE original_ciphertext
        blocks0 == chunks(ciphertext, block_size)
        blocks == IF Truthy(iv) THEN <<iv>> \o blocks0 ELSE blocks0
        new_pl_blocks == chunks(new_plaintext, block_size)
        op == IF Truthy(original_plaintext)
              THEN Slice(original_plaintext,
                         Max(0, Len(original_plaintext) - block_size),
                         Len(original_plaintext))
              ELSE original_plaintext
        m0 == [pc |-> "fake", dec |-> NoDec, fk |-> NoFk, result |-> None]
    IN  IF \/ original_ciphertext = None
              /\ (Truthy(original_plaintext) \/ Truthy(iv))
           \/ Truthy(original_ciphertext)
              /\ Len(original_ciphertext) % block_size # 0
           \/ Len(new_plaintext) % block_size # 0
           \/ Len(new_pl_blocks) # Len(blocks) - 1
        THEN [m0 EXCEPT !.pc = "error"]
        ELSE FakeIter([m0 EXCEPT !.fk =
                 [blocks |-> blocks, new_pl_blocks |-> new_pl_blocks,
                  new_ct_blocks |-> blocks, count_block |-> Len(blocks) - 1,
                  original_plaintext |-> op,
                  original_ciphertext |-> original_ciphertext]])

(***************************************************************************)
(* Inputs                                                                  *)
(***************************************************************************)
\* number of data blocks of the plaintexts that are encrypted
MaxBlocks == 2

Keys == { <<7, 99, 180, 33, 250, 18, 101, 64>>,
          <<201, 5, 77, 140, 9, 230, 155, 66>> }

IVs == { Repeat(CharA, block_size), <<9, 200, 31, 4, 77, 150, 2, 68>> }

\* fill bytes of the data in front of the padding
Fills == {2, 97}

\* a padded plaintext: nb blocks of fill byte f ending in k bytes of value k
Padded(nb, f, k) == Repeat(f, nb * block_size - k) \o Repeat(k, k)

Plaintexts ==
    { Padded(nb, f, k) : nb \in 1..MaxBlocks, f \in Fills, k \in 1..block_size }

NewPlaintexts ==
    { Padded(nb, 97, k) : nb \in 1..MaxBlocks, k \in {1, block_size} }

KnownLens == {0, 3, block_size, block_size + 3}

(***************************************************************************)
(* Actions                                                                 *)
(***************************************************************************)
NoArgs ==
    [op |-> "none", ciphertext |-> <<>>, iv |-> <<>>, is_correct |-> FALSE,
     amount |-> 0, known_plaintext |-> <<>>, new_plaintext |-> <<>>,
     original_ciphertext |-> None, original_plaintext |-> None]

InitCBC ==
    /\ key \in Keys
    /\ pc = "idle"
    /\ args = NoArgs
    /\ dec = NoDec
    /\ fk = NoFk
    /\ orc = NoOrc
    /\ result = None
    /\ keys = <<>>
    /\ heap = <<>>
    /\ made = <<>>
    /\ par = [pc |-> "idle"]
    /\ ret = [raised |-> FALSE, keys |-> <<>>, by |-> "none", on |-> <<>>]

\* the machine state reached becomes the next state (bound once)
Install(reached) ==
    \E m \in {reached} :
        /\ pc' = m.pc
        /\ dec' = m.dec
        /\ fk' = m.fk
        /\ result' = m.result

\* decrypt(ciphertext, iv, is_correct=True, amount, known_plaintext)
DecryptCall ==
    /\ pc = "idle"
    /\ \E pt \in Plaintexts, iv \in IVs, amount \in 0..MaxBlocks,
          kl \in KnownLens :
        /\ kl <= Len(pt)
        /\ amount <= Len(pt) \div block_size
        /\ kl # 0 => amount = 0
        /\ LET ciphertext == CBCEncrypt(key, iv, pt)
               kp == Slice(pt, Len(pt) - kl, Len(pt))
           IN  /\ args' = [NoArgs EXCEPT !.op = "decrypt",
                              !.ciphertext = ciphertext, !.iv = iv,
                              !.is_correct = TRUE, !.amount = amount,
                              !.known_plaintext = kp]
               /\ Install(Settle([pc |-> "decrypt",
                                  dec |-> DecryptEnter(ciphertext, iv, TRUE,
                                                       amount, kp),
                                  fk |-> NoFk, result |-> None]))
    /\ UNCHANGED <<key, orc>>
    /\ UNCHANGED rsaVars

\* fake_ciphertext(new_plaintext, original_ciphertext, iv, original_plaintext)
FakeCall ==
    /\ pc = "idle"
    /\ \E np \in NewPlaintexts, given \in {"nothing", "ciphertext", "both"} :
        \E iv \in IF given = "nothing" THEN {None} ELSE IVs :
            LET pt == Padded(Len(np) \div block_size, 2, 3)
                oc == IF given = "nothing" THEN None
                      ELSE CBCEncrypt(key, iv, pt)
                op == IF given = "both" THEN pt ELSE None
            IN  /\ args' = [NoArgs EXCEPT !.op = "fake", !.new_plaintext = np,
                               !.original_ciphertext = oc, !.iv = iv,
                               !.original_plaintext = op]
                /\ Install(FakeEnter(np, oc, iv, op))
    /\ UNCHANGED <<key, orc>>
    /\ UNCHANGED rsaVars

\* an oracle call that is handed None instead of the last response
OracleCallWithoutResp(sent, kind) ==
    [n |-> orc.n + 1, sent |-> sent, previous_resp |-> NoneResp,
     correct |-> oracle(key, Slice(sent, block_size, Len(sent)),
                        Slice(sent, 0, block_size)),
     resp |-> orc.n + 1, kind |-> kind]

\* the oracle of the environment answers and returns a fresh response
OracleCall(sent, kind) ==
    [n |-> orc.n + 1, sent |-> sent, previous_resp |-> dec.resp,
     correct |-> oracle(key, Slice(sent, block_size, Len(sent)),
                        Slice(sent, 0, block_size)),
     resp |-> orc.n + 1, kind |-> kind]

\* lines 101-108 and what follows the answer: one guess sent to the oracle
Guess ==
    /\ pc \in {"decrypt", "fake"}
    /\ dec.pc = "guess"
    /\ \E o \in {OracleCall(GuessPayload(dec), "guess")} :
        /\ orc' = o
        /\ Install(Settle([pc |-> pc,
                           dec |-> AfterGuess([dec EXCEPT !.resp = o.resp],
                                              o.correct),
                           fk |-> fk, result |-> result]))
    /\ UNCHANGED <<key, args>>
    /\ UNCHANGED rsaVars

\* lines 139-146 and what follows: the confirmation of a first-byte guess
Confirm ==
    /\ pc \in {"decrypt", "fake"}
    /\ dec.pc = "confirm"
    /\ \E o \in {OracleCall(ConfirmPayload(dec), "confirm")} :
        /\ orc' = o
        /\ Install(Settle([pc |-> pc,
                           dec |-> AfterConfirm([dec EXCEPT !.resp = o.resp],
                                                o.correct),
                           fk |-> fk, result |-> result]))
    /\ UNCHANGED <<key, args>>
    /\ UNCHANGED rsaVars

NextCBC == DecryptCall \/ FakeCall \/ Guess \/ Confirm

SpecCBC == InitCBC /\ [][NextCBC]_vars


(***************************************************************************)
(* Claims about the CBC engine                                             *)
(***************************************************************************)
\* the blocks of the top-level decrypt call, IV first
ArgBlocks == <<args.iv>> \o chunks(args.ciphertext, block_size)

\* the padded plaintext of all data blocks under the oracle's key
TruePlaintext == CBCDecrypt(key, ArgBlocks)

LastBytes(s, n) == Slice(s, Len(s) - n, Len(s))

\* C1: decrypt(ciphertext, iv, is_correct=True, amount=0) without
\* known_plaintext returns the true padded plaintext of every data block,
\* for every padding length in [1,B] and any data in front of the padding.
C1_DecryptReturnsPlaintext ==
    (args.op = "decrypt" /\ args.amount = 0 /\ args.known_plaintext = <<>>)
        => /\ pc # "error"
           /\ pc = "done" => result = TruePlaintext

\* C2: fake_ciphertext(new_plaintext) without original_ciphertext, iv and
\* original_plaintext returns a string whose CBC decryption under the
\* oracle's key (first block as IV) is new_plaintext.
C2_FakeDecryptsToNewPlaintext ==
    (args.op = "fake" /\ args.original_ciphertext = None)
        => /\ pc # "error"
           /\ pc = "done" =>
                CBCDecrypt(key, chunks(result, block_size)) = args.new_plaintext

\* C3: with known_plaintext a true suffix of the padded plaintext, what
\* decrypt returns is the true plaintext of all data blocks, for every length
\* of known_plaintext and every number of blocks left in front of it.
C3_KnownPlaintextSuffix ==
    (args.op = "decrypt" /\ args.known_plaintext # <<>> /\ pc = "done")
        => result = TruePlaintext

\* number of data blocks a decrypt call with this amount is asked for
Requested == IF args.amount = 0 THEN Len(ArgBlocks) - 1 ELSE args.amount

\* C4: without known_plaintext decrypt with amount=k returns exactly the
\* true plaintext of the last k data blocks (all of them for amount=0), and
\* every oracle query ends in one of the requested data blocks.
C4_AmountLastBlocks ==
    (args.op = "decrypt" /\ args.known_plaintext = <<>>)
        => /\ pc # "error"
           /\ pc = "done" =>
                result = LastBytes(TruePlaintext, Requested * block_size)
           /\ orc.n > 0 =>
                \E j \in 1..Requested :
                    LastBytes(orc.sent, block_size)
                        = ArgBlocks[Len(ArgBlocks) - j + 1]


(***************************************************************************)
(* Integer helpers of Math / gmpy2 used by rsa.py                          *)
(***************************************************************************)
Abs(x) == IF x < 0 THEN -x ELSE x

RECURSIVE GcdNat(_, _)
GcdNat(a, b) == IF b = 0 THEN a ELSE GcdNat(b, a % b)

\* gcd / gmpy2.gcd: the nonnegative greatest common divisor
gcd(a, b) == GcdNat(Abs(a), Abs(b))

\* <<g, x>> with a*x = g (mod m), by the extended Euclidean algorithm
RECURSIVE EGcd(_, _, _, _)
EGcd(r0, r1, x0, x1) ==
    IF r1 = 0 THEN <<r0, x0>>
    ELSE EGcd(r1, r0 % r1, x1, x0 - (r0 \div r1) * x1)

\* invmod(a, m) fails on non-coprime inputs
InvmodFails(a, m) == m <= 0 \/ gcd(a, m) # 1
invmod(a, m) == IF m = 1 THEN 0 ELSE EGcd(a % m, m, 1, 0)[2] % m

\* pow(b, x, m)
RECURSIVE pow_mod(_, _, _)
pow_mod(b, x, m) ==
    IF x = 0 THEN 1 % m
    ELSE LET h == pow_mod(b, x \div 2, m)
             hh == (h * h) % m
         IN  IF x % 2 = 1 THEN (hh * (b % m)) % m ELSE hh

\* b ** x
RECURSIVE Power(_, _)
Power(b, x) == IF x = 0 THEN 1 ELSE b * Power(b, x - 1)

\* gmpy2.isqrt: the floor of the square root
RECURSIVE SqrtSearch(_, _, _)
SqrtSearch(x, lo, hi) ==
    IF lo >= hi THEN lo
    ELSE LET mid == (lo + hi + 1) \div 2
         IN  IF mid <= x \div mid THEN SqrtSearch(x, mid, hi)
             ELSE SqrtSearch(x, lo, mid - 1)

isqrt(x) == IF x < 2 THEN x ELSE SqrtSearch(x, 1, x)

\* gmpy2.iroot(x, k) = (floor of the k-th root, exactness)
RootSearch(x, k) ==
    CHOOSE r \in 0..x : Power(r, k) <= x /\ Power(r + 1, k) > x

iroot(x, k) ==
    LET r == RootSearch(x, k)
    IN  [root |-> r, exact |-> Power(r, k) = x]

\* power_of_two(x): the largest v with 2^v dividing x
RECURSIVE power_of_two(_)
power_of_two(x) == IF x % 2 = 1 THEN 0 ELSE 1 + power_of_two(x \div 2)

\* continued_fractions(a, b): partial quotients of a/b
RECURSIVE continued_fractions(_, _)
continued_fractions(a, b) ==
    IF b = 0 THEN <<>>
    ELSE <<a \div b>> \o continued_fractions(b, a % b)

\* convergents(cf): the sequence of <<h_i, k_i>>, h_i/k_i the i-th convergent
RECURSIVE ConvergentsFrom(_, _, _, _, _)
ConvergentsFrom(cf, h1, h0, k1, k0) ==
    IF cf = <<>> THEN <<>>
    ELSE LET h == Head(cf) * h1 + h0
             k == Head(cf) * k1 + k0
         IN  <<<<h, k>>>> \o ConvergentsFrom(Tail(cf), h, h1, k, k1)

convergents(cf) == ConvergentsFrom(cf, 1, 0, 0, 1)

\* crt(residues, moduli) for pairwise coprime moduli: the residue modulo
\* the product of the moduli
RECURSIVE CrtFrom(_, _, _, _)
CrtFrom(x, m, residues, moduli) ==
    IF residues = <<>> THEN x
    ELSE LET r == Head(residues)
             n == Head(moduli)
             t == (((r - x) % n) * invmod(m % n, n)) % n
         IN  CrtFrom(x + m * t, m * n, Tail(residues), Tail(moduli))

crt(residues, moduli) == CrtFrom(0, 1, residues, moduli)

IsPrime(x) == x >= 2 /\ \A i \in 2..isqrt(x) : x % i # 0


(***************************************************************************)
(* RSAKey.  None is 0 for d, p and q (the code tests their truth value);   *)
(* a text pair is a dict on the heap, Absent marks a missing field.        *)
(***************************************************************************)
Absent == -1

NewDict == [cipher |-> Absent, plain |-> Absent]

\* the loop for one base without the test gb != n-1
RECURSIVE FactorsWithBaseAnyRoot(_, _, _, _)
FactorsWithBaseAnyRoot(n, k, g, b) ==
    IF b >= k THEN {}
    ELSE LET gb == pow_mod(g, b, n)
         IN  IF gb # 1 /\ pow_mod(gb, 2, n) = 1
             THEN LET p == IF gcd(gb - 1, n) # 1 THEN gcd(gb - 1, n)
                           ELSE gcd(gb + 1, n)
                  IN  {<<p, n \div p>>}
             ELSE FactorsWithBaseAnyRoot(n, k, g, 2 * b)

\* one random base g of factors_from_d: the pairs returned while b < k
RECURSIVE FactorsWithBase(_, _, _, _)
FactorsWithBase(n, k, g, b) ==
    IF b >= k THEN {}
    ELSE LET gb == pow_mod(g, b, n)
         IN  IF gb # 1 /\ gb # n - 1 /\ pow_mod(gb, 2, n) = 1
             THEN LET p == IF gcd(gb - 1, n) # 1 THEN gcd(gb - 1, n)
                           ELSE gcd(gb + 1, n)
                  IN  {<<p, n \div p>>}
             ELSE FactorsWithBase(n, k, g, 2 * b)

\* the random bases g = random.randint(2, n - 2) are drawn up to MaxBase
MaxBase == 24

\* factors_from_d(n, e, d): every pair that some random base g gives
factors_from_d(n, e, d) ==
    LET k == e * d - 1
    IN  UNION { FactorsWithBase(n, k, g, k \div Power(2, power_of_two(k))) :
                g \in { x \in 2..(n - 2) : x <= MaxBase } }

\* the private keys of the keys used as inputs, computed once
PoolModuli == {15, 21, 247, 299}
FactorsMemo ==
    [t \in { <<15, 3, 3>>, <<21, 5, 5>>, <<247, 31, 7>>, <<299, 53, 5>> } |->
        factors_from_d(t[1], t[2], t[3])]

Factors(n, e, d) ==
    IF <<n, e, d>> \in DOMAIN FactorsMemo THEN FactorsMemo[<<n, e, d>>]
    ELSE factors_from_d(n, e, d)

\* RSAKey.__init__, lines 35-50: q and p as the constructor derives them
InitQ(n, p, q) == IF p # 0 THEN n \div p ELSE q
InitP(n, p, q) == n \div InitQ(n, p, q)

\* RSAKey.__init__ raises (division by zero, invmod without inverse)
RSAKeyFails(n, e, d, p, q) ==
    /\ d # 0 \/ p # 0 \/ q # 0
    /\ \/ (p # 0 \/ q # 0) /\ InitQ(n, p, q) = 0
       \/ /\ d = 0
          /\ InitQ(n, p, q) # 0
          /\ InvmodFails(e, (InitP(n, p, q) - 1) * (InitQ(n, p, q) - 1))

\* RSAKey.__init__: the <<d, p, q>> a successful construction may store
RSAKeyPrivate(n, e, d, p, q) ==
    IF d = 0 /\ p = 0 /\ q = 0 THEN {<<0, 0, 0>>}
    ELSE IF d = 0
    THEN {<<invmod(e, (InitP(n, p, q) - 1) * (InitQ(n, p, q) - 1)),
            InitP(n, p, q), InitQ(n, p, q)>>}
    ELSE IF p # 0 \/ q # 0
    THEN {<<d, InitP(n, p, q), InitQ(n, p, q)>>}
    ELSE { <<d, f[1], f[2]>> : f \in Factors(n, e, d) }

\* RSAKey(n, e, d, p, q, texts, identifier): the keys it may construct
RSAKey(n, e, d, p, q, texts, identifier) ==
    IF RSAKeyFails(n, e, d, p, q) THEN {}
    ELSE { [n |-> n, e |-> e, d |-> t[1], p |-> t[2], q |-> t[3],
            identifier |-> identifier, texts |-> texts] :
           t \in RSAKeyPrivate(n, e, d, p, q) }

has_private(k) == k.d # 0 \/ k.p # 0 \/ k.q # 0

\* a copy that keeps the dicts of the source (what texts[:] would give)
shallowcopy(h, texts) == [heap |-> h, texts |-> texts]

\* deepcopy(texts): fresh dicts with the same fields, appended to the heap
deepcopy(h, texts) ==
    [heap |-> h \o [i \in 1..Len(texts) |-> h[texts[i]]],
     texts |-> [i \in 1..Len(texts) |-> Len(h) + i]]

\* texts[:]: a new list holding the same dict objects
TextsCopy(texts) == [i \in 1..Len(texts) |-> texts[i]]


(***************************************************************************)
(* Attacks that derive private keys.  An attack is given the key objects   *)
(* (with their position in the store as identity) and yields the set of    *)
(* outcomes it may return: [raised, keys] with keys the new key objects.   *)
(***************************************************************************)
Returned(ks) == [raised |-> FALSE, keys |-> ks]
Raised == [raised |-> TRUE, keys |-> <<>>]

\* the scan with the pair of a convergent taken as (d, k)
RECURSIVE WienerScanSwapped(_, _, _)
WienerScanSwapped(n, e, cs) ==
    IF cs = <<>> THEN 0
    ELSE LET k == Head(cs)[2]
             d == Head(cs)[1]
             phi == (e * d - 1) \div k
             b == n - phi + 1
             delta == b * b - 4 * n
             sqrt_delta == isqrt(delta)
         IN  IF /\ k # 0
                /\ (e * d - 1) % k = 0
                /\ delta > 0
                /\ sqrt_delta * sqrt_delta = delta
                /\ sqrt_delta % 2 = 0
             THEN d
             ELSE WienerScanSwapped(n, e, Tail(cs))

\* lines 312-324: the d of the first convergent that passes, 0 if none
RECURSIVE WienerScan(_, _, _)
WienerScan(n, e, cs) ==
    IF cs = <<>> THEN 0
    ELSE LET k == Head(cs)[1]
             d == Head(cs)[2]
             phi == (e * d - 1) \div k
             b == n - phi + 1
             delta == b * b - 4 * n
             sqrt_delta == isqrt(delta)
         IN  IF /\ k # 0
                /\ (e * d - 1) % k = 0
                /\ delta > 0
                /\ sqrt_delta * sqrt_delta = delta
                /\ sqrt_delta % 2 = 0
             THEN d
             ELSE WienerScan(n, e, Tail(cs))

\* lines 311-324: the d wiener finds for the public key (n, e), 0 if none
WienerFinds(n, e) == WienerScan(n, e, convergents(continued_fractions(e, n)))

\* what wiener finds for the keys used as inputs, computed once
WienerMemo == [t \in { <<247, 31>>, <<299, 53>> } |-> WienerFinds(t[1], t[2])]

\* wiener(key): None (no key) or the private key built from the d found
wiener(k) ==
    LET d == IF <<k.n, k.e>> \in DOMAIN WienerMemo THEN WienerMemo[<<k.n, k.e>>]
             ELSE WienerFinds(k.n, k.e)
    IN  IF d = 0 THEN {Returned(<<>>)}
        ELSE IF RSAKeyFails(k.n, k.e, d, 0, 0) THEN {Raised}
        ELSE { Returned(<<nk>>) :
               nk \in RSAKey(k.n, k.e, d, 0, 0,
                             TextsCopy(k.texts), k.identifier \o "-private") }

\* itertools.combinations(range(n), 2) in order
Combinations2(n) ==
    LET RECURSIVE Gen(_, _)
        Gen(i, j) == IF i >= n THEN <<>>
                     ELSE IF j > n THEN Gen(i + 1, i + 2)
                     ELSE <<<<i, j>>>> \o Gen(i, j + 1)
    IN  Gen(1, 2)

\* the key of a pair with d inverted modulo (prime - 1) * (n / prime)
CommonPrimeKeyWrongPhi(k, prime) ==
    LET m == (prime - 1) * (k.n \div prime)
    IN  IF InvmodFails(k.e, m) THEN {Raised}
        ELSE IF RSAKeyFails(k.n, k.e, invmod(k.e, m), 0, 0) THEN {Raised}
        ELSE { Returned(<<nk>>) :
               nk \in RSAKey(k.n, k.e, invmod(k.e, m), 0, 0,
                             TextsCopy(k.texts), k.identifier \o "-private") }

\* lines 291-295 for one key of a pair
CommonPrimeKey(k, prime) ==
    LET m == (prime - 1) * (k.n \div prime - 1)
    IN  IF InvmodFails(k.e, m) THEN {Raised}
        ELSE IF RSAKeyFails(k.n, k.e, invmod(k.e, m), 0, 0) THEN {Raised}
        ELSE { Returned(<<nk>>) :
               nk \in RSAKey(k.n, k.e, invmod(k.e, m), 0, 0,
                             TextsCopy(k.texts), k.identifier \o "-private") }

\* `pair[key_no] not in priv_keys`: the key objects in priv_keys are the
\* objects made by this call, objs are the source objects
NotInPrivKeys(obj, priv_objs) == obj \notin priv_objs

\* lines 285-297 from the pair list ps on; ks the keys, objs their
\* identities, priv the outcome so far, fresh the identity of the next object
RECURSIVE CommonPrimesFrom(_, _, _, _, _)
CommonPrimesFrom(ks, objs, ps, priv, fresh) ==
    IF priv.raised \/ ps = <<>> THEN {priv}
    ELSE LET i == Head(ps)[1]
             j == Head(ps)[2]
             prime == gcd(ks[i].n, ks[j].n)
             privObjs == fresh..(fresh + Len(priv.keys) - 1)
             first == IF NotInPrivKeys(objs[i], privObjs)
                      THEN CommonPrimeKey(ks[i], prime)
                      ELSE {Returned(<<>>)}
         IN  IF prime = 1
             THEN CommonPrimesFrom(ks, objs, Tail(ps), priv, fresh)
             ELSE UNION { UNION {
                     CommonPrimesFrom(ks, objs, Tail(ps),
                         IF a.raised \/ b.raised THEN Raised
                         ELSE Returned(priv.keys \o a.keys \o b.keys), fresh) :
                     b \in IF a.raised THEN {Raised}
                           ELSE IF NotInPrivKeys(objs[j],
                                     fresh..(fresh + Len(priv.keys)
                                               + Len(a.keys) - 1))
                           THEN CommonPrimeKey(ks[j], prime)
                           ELSE {Returned(<<>>)} } :
                   a \in first }

\* common_primes(keys)
common_primes(ks, objs, fresh) ==
    CommonPrimesFrom(ks, objs, Combinations2(Len(ks)), Returned(<<>>), fresh)


\* lines 426-430 and 436-440: the key built from a factor found
FaultyKey(k, p) ==
    IF RSAKeyFails(k.n, k.e, 0, p, 0) THEN {Raised}
    ELSE { Returned(<<nk>>) :
           nk \in RSAKey(k.n, k.e, 0, p, 0,
                         TextsCopy(k.texts), k.identifier \o "-private") }

\* the scan of the text pairs without the test p != key.n
RECURSIVE FaultyPairsAnyDivisor(_, _, _)
FaultyPairsAnyDivisor(k, h, i) ==
    IF i > Len(k.texts) THEN 0
    ELSE LET pair == h[k.texts[i]]
             p == gcd(pow_mod(pair.cipher, k.e, k.n) - pair.plain, k.n)
         IN  IF pair.plain # Absent /\ pair.cipher # Absent /\ p # 1
             THEN p
             ELSE FaultyPairsAnyDivisor(k, h, i + 1)

\* lines 419-430 from text pair i on; gcd(s^e - m, n) = gcd(s^e mod n - m, n)
RECURSIVE FaultyPairs(_, _, _)
FaultyPairs(k, h, i) ==
    IF i > Len(k.texts) THEN 0
    ELSE LET pair == h[k.texts[i]]
             p == gcd(pow_mod(pair.cipher, k.e, k.n) - pair.plain, k.n)
         IN  IF pair.plain # Absent /\ pair.cipher # Absent /\ p # 1 /\ p # k.n
             THEN p
             ELSE FaultyPairs(k, h, i + 1)

\* lines 433-440 from the pair list ps on
RECURSIVE FaultySignatures(_, _, _)
FaultySignatures(k, signatures, ps) ==
    IF ps = <<>> THEN 0
    ELSE LET p == gcd(signatures[Head(ps)[1]] - signatures[Head(ps)[2]], k.n)
         IN  IF p # 1 /\ p # k.n THEN p
             ELSE FaultySignatures(k, signatures, Tail(ps))

\* line 433: the signatures held by the key, from text pair i on
RECURSIVE SelectCiphers(_, _, _)
SelectCiphers(k, h, i) ==
    IF i > Len(k.texts) THEN <<>>
    ELSE (IF h[k.texts[i]].cipher # Absent THEN <<h[k.texts[i]].cipher>>
          ELSE <<>>) \o SelectCiphers(k, h, i + 1)

\* faulty(key) without padding
faulty(k, h) ==
    LET p1 == FaultyPairs(k, h, 1)
        signatures == SelectCiphers(k, h, 1)
        p2 == FaultySignatures(k, signatures, Combinations2(Len(signatures)))
    IN  IF p1 # 0 THEN FaultyKey(k, p1)
        ELSE IF p2 # 0 THEN FaultyKey(k, p2)
        ELSE {Returned(<<>>)}


(***************************************************************************)
(* The key store: RSAKey objects, their texts and the calls made on them.  *)
(***************************************************************************)
MaxKeys == 4
MaxDicts == 2
MaxTexts == 2
Vals == {2, 15}
NonePos == -1

Given == [by |-> "given", from |-> 0]
NoPar == [pc |-> "idle"]
NoRet == [raised |-> FALSE, keys |-> <<>>, by |-> "none", on |-> <<>>]

PublicKey(n, e, identifier) ==
    [n |-> n, e |-> e, d |-> 0, p |-> 0, q |-> 0,
     identifier |-> identifier, texts |-> <<>>]

\* the text pairs of a key, as values
Content(k, h) == [i \in 1..Len(k.texts) |-> h[k.texts[i]]]

InitKeys ==
    /\ key = CHOOSE K \in Keys : TRUE
    /\ pc = "idle"
    /\ args = NoArgs
    /\ dec = NoDec
    /\ fk = NoFk
    /\ orc = NoOrc
    /\ result = None
    /\ keys \in { <<PublicKey(247, 31, "k1"), k2>> :
                    k2 \in RSAKey(299, 53, 0, 13, 0, <<>>, "k2") }
    /\ heap = <<>>
    /\ made = <<Given, Given>>
    /\ par = NoPar
    /\ ret = NoRet

\* the dicts some key still refers to, in heap order
Live(ks, h) ==
    { d \in 1..Len(h) : \E k \in 1..Len(ks) : \E i \in 1..Len(ks[k].texts) :
                            ks[k].texts[i] = d }

\* how many live dicts lie at or before d
Rank(ks, h, d) == Cardinality({ x \in Live(ks, h) : x <= d })

\* a dict no list refers to any more is freed
Collect(ks, h) ==
    [keys |-> [k \in 1..Len(ks) |->
                 [ks[k] EXCEPT !.texts =
                     [i \in 1..Len(ks[k].texts) |-> Rank(ks, h, ks[k].texts[i])]]],
     heap |-> [r \in 1..Cardinality(Live(ks, h)) |->
                 h[CHOOSE d \in Live(ks, h) : Rank(ks, h, d) = r]]]

\* self.texts.append(pair)
AppendPair(k, pair) ==
    /\ Len(heap) < MaxDicts
    /\ Len(keys[k].texts) < MaxTexts
    /\ heap' = Append(heap, pair)
    /\ keys' = [keys EXCEPT ![k].texts = Append(@, Len(heap) + 1)]

\* self.texts[position][field] = value
SetField(k, position, pair) ==
    /\ position < Len(keys[k].texts)
    /\ heap' = [heap EXCEPT ![keys[k].texts[position + 1]] = pair]
    /\ UNCHANGED keys

Positions == {NonePos} \cup (0..(MaxTexts - 1))

\* an argument of the text calls: a number, a string that b2i converts
\* to the number v, an object that b2i rejects, or None
Number(v) == [type |-> "int", v |-> v]

\* the truth value of an argument
TruthOf(a) == a.type \in {"str", "obj"} \/ (a.type = "int" /\ a.v # 0)

\* add_ciphertext(ciphertext, position) on keys[k]; log.critical_error ends
\* the call when b2i fails
add_ciphertext(k, ciphertext, position) ==
    IF ciphertext.type \notin {"int", "str"} THEN UNCHANGED <<keys, heap>>
    ELSE IF position = NonePos
    THEN AppendPair(k, [NewDict EXCEPT !.cipher = ciphertext.v])
    ELSE /\ position < Len(keys[k].texts)
         /\ SetField(k, position,
                [heap[keys[k].texts[position + 1]] EXCEPT !.cipher = ciphertext.v])

\* add_plaintext(plaintext, position) on keys[k]
add_plaintext(k, plaintext, position) ==
    IF plaintext.type \notin {"int", "str"} THEN UNCHANGED <<keys, heap>>
    ELSE IF position = NonePos
    THEN AppendPair(k, [NewDict EXCEPT !.plain = plaintext.v])
    ELSE /\ position < Len(keys[k].texts)
         /\ SetField(k, position,
                [heap[keys[k].texts[position + 1]] EXCEPT !.plain = plaintext.v])

\* add_text_pair(ciphertext, plaintext) on keys[k]; log.error only logs
add_text_pair(k, ciphertext, plaintext) ==
    IF ~TruthOf(ciphertext) /\ ~TruthOf(plaintext)
    THEN UNCHANGED <<keys, heap>>
    ELSE AppendPair(k,
            [cipher |-> IF TruthOf(ciphertext) /\ ciphertext.type = "int"
                        THEN ciphertext.v ELSE Absent,
             plain |-> IF TruthOf(plaintext) /\ plaintext.type = "int"
                       THEN plaintext.v ELSE Absent])

\* keys[k].add_ciphertext(ciphertext, position)
AddCiphertextOn(k) ==
    /\ \E c \in Vals, position \in Positions :
        add_ciphertext(k, Number(c), position)
    /\ UNCHANGED <<made, par, ret>>
    /\ UNCHANGED cbcVars

AddCiphertext == \E k \in 1..Len(keys) : AddCiphertextOn(k)

\* keys[k].add_plaintext(plaintext, position)
AddPlaintextOn(k) ==
    /\ \E m \in Vals, position \in Positions :
        add_plaintext(k, Number(m), position)
    /\ UNCHANGED <<made, par, ret>>
    /\ UNCHANGED cbcVars

AddPlaintext == \E k \in 1..Len(keys) : AddPlaintextOn(k)

\* keys[k].add_text_pair(ciphertext, plaintext); 0 stands for None and for 0
AddTextPairOn(k) ==
    /\ \E c \in Vals \cup {0}, m \in Vals \cup {0} :
        add_text_pair(k, Number(c), Number(m))
    /\ UNCHANGED <<made, par, ret>>
    /\ UNCHANGED cbcVars

AddTextPair == \E k \in 1..Len(keys) : AddTextPairOn(k)

\* keys[k].clear_texts()
ClearTextsOn(k) ==
    /\ \E c \in {Collect([keys EXCEPT ![k].texts = <<>>], heap)} :
        /\ keys' = c.keys
        /\ heap' = c.heap
    /\ UNCHANGED <<made, par, ret>>
    /\ UNCHANGED cbcVars

ClearTexts == \E k \in 1..Len(keys) : ClearTextsOn(k)

\* str(id(self)): a string no other object has
IdOf(obj) == "id" \o ToString(obj)

\* keys[k].copy(identifier='')
CopyOf(k) ==
    /\ Len(keys) < MaxKeys
    /\ \E c \in {deepcopy(heap, keys[k].texts)} :
        /\ Len(c.heap) <= MaxDicts
        /\ \E nk \in IF has_private(keys[k])
                     THEN RSAKey(keys[k].n, keys[k].e, keys[k].d, keys[k].p,
                                 keys[k].q, c.texts, IdOf(Len(keys) + 1))
                     ELSE RSAKey(keys[k].n, keys[k].e, 0, 0, 0,
                                 c.texts, IdOf(Len(keys) + 1)) :
            keys' = Append(keys, nk)
        /\ heap' = c.heap
        /\ made' = Append(made, [by |-> "copy", from |-> k])
    /\ UNCHANGED <<par, ret>>
    /\ UNCHANGED cbcVars

Copy == \E k \in 1..Len(keys) : CopyOf(k)

\* keys[k].publickey(identifier='')
PublickeyOf(k) ==
    /\ Len(keys) < MaxKeys
    /\ \E c \in {deepcopy(heap, keys[k].texts)} :
        /\ Len(c.heap) <= MaxDicts
        /\ \E nk \in RSAKey(keys[k].n, keys[k].e, 0, 0, 0,
                            c.texts, " - publickey") :
            keys' = Append(keys, nk)
        /\ heap' = c.heap
        /\ made' = Append(made, [by |-> "publickey", from |-> k])
    /\ UNCHANGED <<par, ret>>
    /\ UNCHANGED cbcVars

Publickey == \E k \in 1..Len(keys) : PublickeyOf(k)

\* the keys an attack returned join the store; srcs names their sources
Derive(o, by, srcs) ==
    /\ Len(keys) + Len(o.keys) <= MaxKeys
    /\ keys' = keys \o o.keys
    /\ made' = made \o [i \in 1..Len(o.keys) |-> [by |-> by, from |-> srcs[i]]]
    /\ ret' = [raised |-> o.raised, keys |-> o.keys, by |-> by, on |-> srcs]

\* wiener(key)
WienerCall ==
    /\ Len(keys) < MaxKeys
    /\ \E k \in 1..Len(keys) :
        \E o \in wiener(keys[k]) : Derive(o, "wiener", <<k>>)
    /\ UNCHANGED <<heap, par>>
    /\ UNCHANGED cbcVars

\* faulty(key)
FaultyCall ==
    /\ Len(keys) < MaxKeys
    /\ \E k \in 1..Len(keys) :
        \E o \in faulty(keys[k], heap) : Derive(o, "faulty", <<k>>)
    /\ UNCHANGED <<heap, par>>
    /\ UNCHANGED cbcVars

\* common_primes([keys[i], keys[j]])
CommonPrimesCall ==
    /\ Len(keys) < MaxKeys
    /\ \E i \in 1..Len(keys), j \in 1..Len(keys) :
        /\ i # j
        /\ \E o \in common_primes(<<keys[i], keys[j]>>, <<i, j>>, Len(keys) + 1) :
            Derive(o, "common_primes", <<i, j>>)
    /\ UNCHANGED <<heap, par>>
    /\ UNCHANGED cbcVars

\* the calls of the RSAKey class on a store of keys
NextKeys ==
    \/ AddCiphertext
    \/ AddPlaintext
    \/ AddTextPair
    \/ ClearTexts
    \/ Copy
    \/ Publickey

SpecKeys == InitKeys /\ [][NextKeys]_vars

\* the attacks that derive private keys, and texts written before and after
NextDerive ==
    \/ AddCiphertext
    \/ AddPlaintext
    \/ AddTextPair
    \/ WienerCall
    \/ FaultyCall
    \/ CommonPrimesCall

SpecDerive == InitKeys /\ [][NextDerive]_vars

Attacks == {"common_primes", "wiener", "faulty"}
Copies == {"copy", "publickey"}

\* the texts of key k are after the step what they were before it
Kept(k) == Content(keys'[k], heap') = Content(keys[k], heap)

\* C6: adding or overwriting the cipher or plain field of a text pair of a
\* key derived by common_primes, wiener or faulty leaves every text pair of
\* its source key unchanged, and a field written in the source leaves the
\* derived key's text pairs unchanged.
C6_DerivedTextsDeepCopied ==
    [][\A j \in 1..Len(keys) :
          made[j].by \in Attacks =>
              /\ AddCiphertextOn(j) \/ AddPlaintextOn(j) => Kept(made[j].from)
              /\ AddCiphertextOn(made[j].from) \/ AddPlaintextOn(made[j].from)
                     => Kept(j)]_vars

\* a call that changes the texts of key k
TextCallOn(k) ==
    AddCiphertextOn(k) \/ AddPlaintextOn(k) \/ AddTextPairOn(k) \/ ClearTextsOn(k)

\* C7: copy() and publickey() return a key with the n and e of the source
\* and texts equal to the source's at the time of the call, publickey()
\* without private material; afterwards add_ciphertext, add_plaintext,
\* add_text_pair and clear_texts on the copy or on the source leave the
\* texts of the other unchanged.
C7_CopyIsIndependent ==
    [][/\ \A k \in 1..Len(keys) :
            CopyOf(k) \/ PublickeyOf(k) =>
                /\ keys'[Len(keys')].n = keys[k].n
                /\ keys'[Len(keys')].e = keys[k].e
                /\ Content(keys'[Len(keys')], heap') = Content(keys[k], heap)
                /\ Kept(k)
                /\ PublickeyOf(k) => ~has_private(keys'[Len(keys')])
       /\ \A j \in 1..Len(keys) :
            made[j].by \in Copies =>
                /\ TextCallOn(j) => Kept(made[j].from)
                /\ TextCallOn(made[j].from) => Kept(j)]_vars

\* a copy and its source, both holding texts, differ after a call on one
C7_Witness ==
    \E j \in 1..Len(keys) :
        /\ made[j].by \in Copies
        /\ Len(keys[j].texts) > 0
        /\ Len(keys[made[j].from].texts) > 0
        /\ Content(keys[j], heap) # Content(keys[made[j].from], heap)


(***************************************************************************)
(* parity: decryption with an oracle for the least significant bit.  One   *)
(* step of the model is one call of the oracle and the code up to the      *)
(* next call.                                                              *)
(***************************************************************************)
\* <<n, e, d>> of the keys the oracle may hold
ParityKeys == { <<15, 3, 3>>, <<21, 5, 5>>, <<35, 5, 5>>, <<247, 31, 7>> }

\* RSAKey.encrypt: raw encryption
encrypt(k, plaintext) == pow_mod(plaintext, k.e, k.n)

\* the environment's parity_oracle: the last bit of the decryption
parity_oracle(ciphertext) == pow_mod(ciphertext, key.d, key.n) % 2

InitParity ==
    /\ \E t \in ParityKeys : \E m \in 0..(t[1] - 1) :
        /\ key = [n |-> t[1], d |-> t[3]]
        /\ keys = <<[PublicKey(t[1], t[2], "k") EXCEPT !.texts = <<1>>]>>
        /\ heap = <<[NewDict EXCEPT !.cipher = pow_mod(m, t[2], t[1])]>>
    /\ pc = "idle"
    /\ args = NoArgs
    /\ dec = NoDec
    /\ fk = NoFk
    /\ orc = NoOrc
    /\ result = None
    /\ made = <<Given>>
    /\ par = NoPar
    /\ ret = NoRet

\* lines 474-482: from text_no on, the next pair to decrypt and the locals
\* set up for it; after the last pair the call returns
RECURSIVE ParityFor(_, _, _, _)
ParityFor(k, h, text_no, recovered) ==
    IF text_no >= Len(keys[k].texts)
    THEN [pc |-> "done", k |-> k, recovered |-> recovered]
    ELSE LET pair == h[keys[k].texts[text_no + 1]]
         IN  IF pair.cipher # Absent /\ pair.plain = Absent
             THEN [pc |-> "loop", k |-> k, text_no |-> text_no,
                   cipher |-> pair.cipher,
                   two_encrypted |-> encrypt(keys[k], 2),
                   counter |-> 0, lower_bound |-> 0, numerator |-> 0,
                   upper_bound |-> keys[k].n, denominator |-> 1,
                   recovered |-> recovered]
             ELSE ParityFor(k, h, text_no + 1, recovered)

\* line 483 and lines 497-499: the loop goes on, or the bound reached is
\* written to the pair and the next pair is taken
ParityWhile(f, h) ==
    IF f.pc = "loop" /\ ~(f.lower_bound + 1 < f.upper_bound)
    THEN LET h2 == [h EXCEPT ![keys[f.k].texts[f.text_no + 1]].plain =
                                  f.upper_bound]
         IN  [par |-> ParityFor(f.k, h2, f.text_no + 1,
                         f.recovered \cup {<<f.text_no, f.upper_bound>>}),
              heap |-> h2]
    ELSE [par |-> f, heap |-> h]

\* what a step leaves behind
ParityInstall(m) ==
    /\ par' = m.par
    /\ heap' = m.heap
    /\ ret' = IF m.par.pc = "done"
              THEN [raised |-> FALSE, keys |-> <<>>, by |-> "parity",
                    on |-> <<m.par.k>>, value |-> m.par.recovered]
              ELSE ret
    /\ UNCHANGED <<keys, made>>
    /\ UNCHANGED cbcVars

\* parity(parity_oracle, key): lines 468-482, with the probe parity_oracle(1)
ParityCall ==
    /\ par.pc = "idle"
    /\ \E k \in 1..Len(keys) :
        \E m \in {ParityWhile(ParityFor(k, heap, 0, {}), heap)} :
            ParityInstall(m)

\* lines 484-493: one round of the loop, with its oracle call
ParityRound ==
    /\ par.pc = "loop"
    /\ LET cipher == (par.two_encrypted * par.cipher) % keys[par.k].n
           denominator == par.denominator * 2
           is_odd == parity_oracle(cipher)
           numerator == par.numerator * 2 + (IF is_odd # 0 THEN 1 ELSE 0)
       IN  \E m \in {ParityWhile(
                       [par EXCEPT !.cipher = cipher,
                                   !.denominator = denominator,
                                   !.numerator = numerator,
                                   !.counter = par.counter + 1,
                                   !.lower_bound =
                                       (keys[par.k].n * numerator) \div denominator,
                                   !.upper_bound =
                                       (keys[par.k].n * (numerator + 1))
                                           \div denominator],
                       heap)} :
               ParityInstall(m)

NextParity == ParityCall \/ ParityRound

SpecParity == InitParity /\ [][NextParity]_vars

\* the plaintext whose encryption the key holds: the oracle's decryption
ParityPlain == pow_mod(heap[1].cipher, key.d, key.n)

\* C5: for every odd n = p*q and every m with 0 <= m < n, parity run on the
\* pair {cipher: m^e mod n} stores plain = m in the pair and returns m for
\* it, m = 0 and m = n-1 included.
C5_ParityRecoversPlaintext ==
    par.pc = "done" =>
        /\ heap[1].plain = ParityPlain
        /\ par.recovered = {<<0, ParityPlain>>}

\* what holds of the code: the same for the plaintexts 1 <= m < n
ParityRecoversNonZero ==
    (par.pc = "done" /\ ParityPlain # 0) =>
        /\ heap[1].plain = ParityPlain
        /\ par.recovered = {<<0, ParityPlain>>}


(***************************************************************************)
(* common_primes on two keys drawn from a pool of small RSA keys.          *)
(***************************************************************************)
PoolPrimes == {3, 5, 7, 11}
PoolExponents == {3, 5, 7}

\* the public keys (n = p*q, e) with p < q from the pool and e invertible
PoolKeys ==
    { <<p * q, e>> : p \in PoolPrimes, q \in PoolPrimes, e \in PoolExponents }
        \cap { t \in (1..121) \X PoolExponents :
                 \E p \in PoolPrimes, q \in PoolPrimes :
                    /\ p < q
                    /\ t[1] = p * q
                    /\ t[2] < (p - 1) * (q - 1)
                    /\ gcd(t[2], (p - 1) * (q - 1)) = 1 }

InitCommon ==
    /\ \E a \in PoolKeys, b \in PoolKeys :
        keys = <<PublicKey(a[1], a[2], "a"), PublicKey(b[1], b[2], "b")>>
    /\ heap = <<>>
    /\ made = <<Given, Given>>
    /\ key = CHOOSE K \in Keys : TRUE
    /\ pc = "idle"
    /\ args = NoArgs
    /\ dec = NoDec
    /\ fk = NoFk
    /\ orc = NoOrc
    /\ result = None
    /\ par = NoPar
    /\ ret = NoRet

NextCommon == CommonPrimesCall

SpecCommon == InitCommon /\ [][NextCommon]_vars

\* the two keys the last common_primes call was given
Src(i) == keys[ret.on[i]]

\* the call returned the two private keys for the shared factor g
BothRecovered(g) ==
    /\ ~ret.raised
    /\ Len(ret.keys) = 2
    /\ \A i \in 1..2 :
        /\ ret.keys[i].n = Src(i).n
        /\ ret.keys[i].e = Src(i).e
        /\ g \in {ret.keys[i].p, ret.keys[i].q}
        /\ ret.keys[i].p * ret.keys[i].q = Src(i).n
        /\ ret.keys[i].d > 0
        /\ ret.keys[i].d < (g - 1) * (Src(i).n \div g - 1)
        /\ (ret.keys[i].e * ret.keys[i].d) % ((g - 1) * (Src(i).n \div g - 1)) = 1
        /\ ret.keys[i].identifier = Src(i).identifier \o "-private"

MaxWienerPrime == 199
MaxModulus == 40000

\* the private exponents of the keys
WienerExponents == {3}

\* the primes the moduli are made of: all small ones and two large ones
WienerPrimes == { x \in 3..MaxWienerPrime : IsPrime(x) } \cup {2207, 2213}

\* <<p, q, d>> with p < q, n = p*q within the bound and d invertible
WienerPairs ==
    { t \in WienerPrimes \X WienerPrimes \X WienerExponents :
        /\ t[1] < t[2]
        /\ t[1] * t[2] <= MaxModulus
        /\ gcd(t[3], (t[1] - 1) * (t[2] - 1)) = 1 }

InitWiener ==
    /\ \E t \in WienerPairs :
        /\ key = [p |-> t[1], q |-> t[2], d |-> t[3]]
        /\ keys = <<PublicKey(t[1] * t[2],
                              invmod(t[3], (t[1] - 1) * (t[2] - 1)), "k")>>
    /\ heap = <<>>
    /\ made = <<Given>>
    /\ pc = "idle"
    /\ args = NoArgs
    /\ dec = NoDec
    /\ fk = NoFk
    /\ orc = NoOrc
    /\ result = None
    /\ par = NoPar
    /\ ret = NoRet

NextWiener == WienerCall

SpecWiener == InitWiener /\ [][NextWiener]_vars

\* wiener was run and the private exponent is below n^(1/4)/3
WienerApplies ==
    /\ ret.by = "wiener"
    /\ 81 * key.d * key.d * key.d * key.d < Src(1).n

\* wiener returned the private key with the private exponent
WienerRecovered ==
    /\ ~ret.raised
    /\ Len(ret.keys) = 1
    /\ ret.keys[1].d = key.d
    /\ ret.keys[1].identifier = Src(1).identifier \o "-private"

max_times == 100

\* get_mutable_texts(key, None): the ciphertexts without plaintext
RECURSIVE get_mutable_texts(_, _, _)
get_mutable_texts(k, h, i) ==
    IF i > Len(k.texts) THEN <<>>
    ELSE (IF h[k.texts[i]].cipher # Absent /\ h[k.texts[i]].plain = Absent
          THEN <<h[k.texts[i]].cipher>> ELSE <<>>)
             \o get_mutable_texts(k, h, i + 1)

\* lines 262-271: the root found for one ciphertext in the first round
\* times = t * n, t < max_times, in which it is exact, or <<>>
SmallRoot(k, ciphertext) ==
    LET hits == {t \in 0..(max_times - 1) :
                    LET r == iroot(ciphertext + t * k.n, k.e)
                    IN  r.exact /\ pow_mod(r.root, k.e, k.n) = ciphertext}
    IN  IF hits = {} THEN <<>>
        ELSE LET first == CHOOSE t \in hits : \A u \in hits : t <= u
             IN  <<iroot(ciphertext + first * k.n, k.e).root>>

RECURSIVE SmallRoots(_, _)
SmallRoots(k, ciphertexts) ==
    IF ciphertexts = <<>> THEN <<>>
    ELSE SmallRoot(k, Head(ciphertexts)) \o SmallRoots(k, Tail(ciphertexts))

\* small_e_msg(key): the recovered plaintexts
small_e_msg(k, h) == SmallRoots(k, get_mutable_texts(k, h, 1))

InSeq(x, s) == \E i \in 1..Len(s) : s[i] = x

\* lines 354-363: ciphertexts, modules and correct_keys from key i on
RECURSIVE HastadSelect(_, _, _, _, _)
HastadSelect(ks, h, e, i, acc) ==
    IF i > Len(ks) THEN acc
    ELSE LET c == h[ks[i].texts[1]].cipher
         IN  HastadSelect(ks, h, e, i + 1,
                 IF ~InSeq(ks[i].n, acc.modules) /\ ~InSeq(c, acc.ciphertexts)
                    /\ ks[i].e = e
                 THEN [ciphertexts |-> Append(acc.ciphertexts, c),
                       modules |-> Append(acc.modules, ks[i].n),
                       correct_keys |-> Append(acc.correct_keys, i)]
                 ELSE acc)

\* lines 374-378: the first plaintext small_e_msg recovers, from key i on
RECURSIVE HastadSimpleRoots(_, _, _, _)
HastadSimpleRoots(ks, h, correct_keys, i) ==
    IF i > Len(correct_keys) THEN <<>>
    ELSE LET recovered_plaintexts == small_e_msg(ks[correct_keys[i]], h)
         IN  IF Len(recovered_plaintexts) > 0
             THEN <<recovered_plaintexts[1]>>
             ELSE HastadSimpleRoots(ks, h, correct_keys, i + 1)

\* one_key.texts[0]['plain'] = plaintext for the keys from i on
RECURSIVE HastadWrite(_, _, _, _, _)
HastadWrite(ks, h, correct_keys, plaintext, i) ==
    IF i > Len(correct_keys) THEN h
    ELSE HastadWrite(ks,
             [h EXCEPT ![ks[correct_keys[i]].texts[1]].plain = plaintext],
             correct_keys, plaintext, i + 1)

HastadReturn(raised, value, h) == [raised |-> raised, value |-> value, heap |-> h]

\* lines 380-398
HastadCrt(ks, h, e, sel) ==
    LET modules == SubSeq(sel.modules, 1, IF Len(sel.modules) > e THEN e
                                          ELSE Len(sel.modules))
        ciphertexts == SubSeq(sel.ciphertexts, 1, Len(modules))
        r == iroot(crt(ciphertexts, modules), e)
    IN  IF r.exact
        THEN HastadReturn(FALSE, r.root,
                          HastadWrite(ks, h, sel.correct_keys, r.root, 1))
        ELSE HastadReturn(FALSE, Absent, h)

\* hastad(keys) with ciphertexts=None
hastad(ks, h) ==
    LET e == ks[1].e
        sel == HastadSelect(ks, h, e, 1,
                   [ciphertexts |-> <<>>, modules |-> <<>>, correct_keys |-> <<>>])
        simple == IF Len(sel.modules) < e
                  THEN HastadSimpleRoots(ks, h, sel.correct_keys, 1) ELSE <<>>
    IN  IF Len(ks) < e THEN HastadReturn(TRUE, Absent, h)
        ELSE IF \E i \in 1..Len(ks) :
                    \/ Len(ks[i].texts) = 0
                    \/ h[ks[i].texts[1]].cipher = Absent
        THEN HastadReturn(TRUE, Absent, h)
        ELSE IF simple # <<>> THEN HastadReturn(FALSE, simple[1], h)
        ELSE HastadCrt(ks, h, e, sel)


\* the moduli of the broadcast (pairwise coprime, 3 invertible) and the
\* plaintexts sent
HastadExponents == {3}
HastadModuli == {15, 187, 667}
HastadMsgs == {0, 2, 3, 7, 14}

InitHastad ==
    /\ \E e \in HastadExponents :
        \E n \in [1..e -> HastadModuli], m \in [1..e -> HastadMsgs] :
            /\ \A i \in 1..e, j \in 1..e : i # j => n[i] # n[j]
            /\ key = [m |-> m]
            /\ keys = [i \in 1..e |->
                         [PublicKey(n[i], e, IdOf(i)) EXCEPT !.texts = <<i>>]]
            /\ heap = [i \in 1..e |->
                         [NewDict EXCEPT !.cipher = pow_mod(m[i], e, n[i])]]
            /\ made = [i \in 1..e |-> Given]
    /\ pc = "idle"
    /\ args = NoArgs
    /\ dec = NoDec
    /\ fk = NoFk
    /\ orc = NoOrc
    /\ result = None
    /\ par = NoPar
    /\ ret = NoRet

\* hastad(keys) on all the keys of the store
HastadCall ==
    /\ \E o \in {hastad(keys, heap)} :
        /\ heap' = o.heap
        /\ ret' = [raised |-> o.raised, keys |-> <<>>, by |-> "hastad",
                   on |-> [i \in 1..Len(keys) |-> i], value |-> o.value]
    /\ UNCHANGED <<keys, made, par>>
    /\ UNCHANGED cbcVars

NextHastad == HastadCall

SpecHastad == InitHastad /\ [][NextHastad]_vars

\* every key holds a ciphertext of one and the same plaintext
SamePlaintext == \A i \in 1..Len(keys) : key.m[i] = key.m[1]

\* the e-th root of the CRT of the ciphertexts is exact
CrtRootExact ==
    iroot(crt([i \in 1..Len(keys) |-> heap[i].cipher],
              [i \in 1..Len(keys) |-> keys[i].n]), keys[1].e).exact

\* C10: given e keys with the same e, pairwise coprime distinct moduli and
\* one ciphertext each of the same plaintext m < min(n_i), hastad returns m
\* and sets texts[0]['plain'] = m on every key; when the e-th root of the
\* CRT result is not exact it returns None and changes no key's texts.
C10_HastadRecoversAndWrites ==
    ret.by = "hastad" =>
        /\ SamePlaintext =>
              /\ ~ret.raised
              /\ ret.value = key.m[1]
              /\ \A i \in 1..Len(keys) : heap[keys[i].texts[1]].plain = key.m[1]
        /\ ~CrtRootExact =>
              /\ ret.value = Absent
              /\ \A i \in 1..Len(keys) : heap[i].plain = Absent

\* what holds of the code: the value returned for one and the same plaintext
HastadReturnsPlaintext ==
    (ret.by = "hastad" /\ SamePlaintext) => ~ret.raised /\ ret.value = key.m[1]

(***************************************************************************)
(* factors_from_d on its own: one step is one round of `while True` with   *)
(* a base g drawn from [2, n-2].                                           *)
(***************************************************************************)
FactorPrimes == {3, 5, 7, 11, 13}

\* <<p, q, e, d>> with p, q distinct odd primes and e*d = 1 mod (p-1)(q-1);
\* d is the inverse of e below phi or that inverse plus phi
FactorKeys ==
    { t \in FactorPrimes \X FactorPrimes \X (2..119) \X (2..239) :
        LET phi == (t[1] - 1) * (t[2] - 1)
        IN  /\ t[1] # t[2]
            /\ t[3] < phi
            /\ t[4] < 2 * phi
            /\ (t[3] * t[4]) % phi = 1 }

InitFactors ==
    /\ \E t \in FactorKeys :
        key = [n |-> t[1] * t[2], p |-> t[1], q |-> t[2], e |-> t[3], d |-> t[4]]
    /\ keys = <<>>
    /\ heap = <<>>
    /\ made = <<>>
    /\ pc = "idle"
    /\ args = NoArgs
    /\ dec = NoDec
    /\ fk = NoFk
    /\ orc = NoOrc
    /\ result = None
    /\ par = NoPar
    /\ ret = [by |-> "none", g |-> 0, pairs |-> {}]

\* lines 228-239: one round of the outer loop; the call returns the pair the
\* base gives, or draws another base when the inner loop runs out
FactorsRound ==
    /\ ret.pairs = {}
    /\ \E g \in 2..(key.n - 2) :
        LET k == key.e * key.d - 1
        IN  ret' = [by |-> "factors_from_d", g |-> g,
                    pairs |-> FactorsWithBase(key.n, k, g,
                                  k \div Power(2, power_of_two(k)))]
    /\ UNCHANGED <<key, pc, args, dec, fk, orc, result, keys, heap, made, par>>

NextFactors == FactorsRound

SpecFactors == InitFactors /\ [][NextFactors]_vars

\* C11: whatever bases are drawn, a pair factors_from_d returns is (p, q) or
\* (q, p); its first component is never 1 or n, the fallback gcd(gb+1, n)
\* included.
C11_FactorsFromDReturnsFactors ==
    ret.by = "factors_from_d" =>
        \A pair \in ret.pairs :
            /\ pair \in {<<key.p, key.q>>, <<key.q, key.p>>}
            /\ pair[1] \notin {1, key.n}

\* factors_from_d has returned a pair
C11_Witness ==
    /\ ret.by = "factors_from_d"
    /\ ret.pairs # {}

(***************************************************************************)
(* blinding(key, signing_oracle) and blinding(key, decryption_oracle).     *)
(* The oracles are the environment's: raw RSA with the private exponent.   *)
(***************************************************************************)
\* (n, e, d) of the keys attacked; n > 100, so every blind is below n
BlindKeys == { <<247, 31, 7>>, <<299, 53, 5>> }

\* the field values of the text pairs: 0, a unit and a multiple of a prime
\* of n
BlindVals == {0, 2, 13}

\* the environment's signing oracle
signing_oracle(plaintext) == pow_mod(plaintext, key.d, key.n)

\* the environment's decryption oracle
decryption_oracle(ciphertext) == pow_mod(ciphertext, key.d, key.n)

InitBlinding ==
    /\ \E t \in BlindKeys, len \in {1, 2} :
        \E ds \in [1..len -> { x \in [cipher : BlindVals \cup {Absent},
                                      plain : BlindVals \cup {Absent}] :
                                 x.cipher # Absent \/ x.plain # Absent }] :
            /\ key = [n |-> t[1], d |-> t[3]]
            /\ keys = <<[PublicKey(t[1], t[2], "k") EXCEPT
                            !.texts = [i \in 1..len |-> i]]>>
            /\ heap = ds
    /\ pc = "idle"
    /\ args = NoArgs
    /\ dec = NoDec
    /\ fk = NoFk
    /\ orc = NoOrc
    /\ result = None
    /\ made = <<Given>>
    /\ par = NoPar
    /\ ret = NoRet

\* blinding(key, ...) with exactly one oracle given: lines 538-545 / 561-563
BlindingCall ==
    /\ par.pc = "idle"
    /\ \E mode \in {"signing_oracle", "decryption_oracle"} :
        par' = [pc |-> "blind", mode |-> mode, text_no |-> 0,
                recovered |-> {}, asked |-> {}, coprime |-> TRUE,
                texts0 |-> Content(keys[1], heap)]
    /\ UNCHANGED <<keys, heap, made, ret>>
    /\ UNCHANGED cbcVars

\* lines 546-559 / 563-576: one round of `for text_no`, with the blind drawn
\* by random.randint(2, 100) when the pair lacks the field looked for
BlindingRound ==
    /\ par.pc = "blind"
    /\ LET k == keys[1]
           pair == heap[k.texts[par.text_no + 1]]
           signing == par.mode = "signing_oracle"
           target == IF signing THEN pair.plain ELSE pair.cipher
           missing == IF signing THEN pair.cipher ELSE pair.plain
           next == IF par.text_no + 1 >= Len(k.texts) THEN "done" ELSE "blind"
       IN  IF target # Absent /\ missing = Absent
           THEN \E blind \in 2..100 :
                  LET blind_enc == encrypt(k, blind)
                      blinded == (target * blind_enc) % k.n
                      answer == IF signing THEN signing_oracle(blinded)
                                ELSE decryption_oracle(blinded)
                      value == (invmod(blind, k.n) * answer) % k.n
                      asked == par.asked \cup {par.text_no}
                      coprime == par.coprime /\ gcd(blind, k.n) = 1
                  IN  IF answer = 0
                      THEN /\ par' = [par EXCEPT !.pc = "error", !.asked = asked,
                                                 !.coprime = coprime]
                           /\ heap' = heap
                      ELSE IF InvmodFails(blind, k.n)
                      THEN /\ par' = [par EXCEPT !.pc = "raised", !.asked = asked,
                                                 !.coprime = coprime]
                           /\ heap' = heap
                      ELSE /\ par' = [par EXCEPT
                                        !.pc = next,
                                        !.text_no = par.text_no + 1,
                                        !.asked = asked,
                                        !.coprime = coprime,
                                        !.recovered = par.recovered
                                            \cup {<<par.text_no, value>>}]
                           /\ heap' = [heap EXCEPT ![k.texts[par.text_no + 1]] =
                                         IF signing
                                         THEN [pair EXCEPT !.cipher = value]
                                         ELSE [pair EXCEPT !.plain = value]]
           ELSE /\ par' = [par EXCEPT !.pc = next, !.text_no = par.text_no + 1]
                /\ heap' = heap
    /\ UNCHANGED <<keys, made, ret>>
    /\ UNCHANGED cbcVars

NextBlinding == BlindingCall \/ BlindingRound

SpecBlinding == InitBlinding /\ [][NextBlinding]_vars

\* what the claim expects of pair i (counted from 1) once the call is over
BlindingExpected(i) ==
    LET old == par.texts0[i]
        new == heap[keys[1].texts[i]]
        signing == par.mode = "signing_oracle"
        target == IF signing THEN old.plain ELSE old.cipher
        missing == IF signing THEN old.cipher ELSE old.plain
        value == pow_mod(target, key.d, key.n)
    IN  IF target # Absent /\ missing = Absent
        THEN /\ new = (IF signing THEN [old EXCEPT !.cipher = value]
                       ELSE [old EXCEPT !.plain = value])
             /\ <<i - 1, value>> \in par.recovered
        ELSE /\ new = old
             /\ (i - 1) \notin par.asked

\* C12: with a signing oracle x -> x^d mod n, blinding stores
\* cipher = plain^d mod n in every pair that has 'plain' and no 'cipher',
\* for every blind in [2, 100] coprime to n; with a decryption oracle it
\* stores plain = cipher^d mod n in every pair with 'cipher' and no 'plain';
\* pairs with both fields stay unchanged and cause no oracle call.
C12_BlindingFillsMissingField ==
    (par.pc \in {"done", "error"} /\ par.coprime)
        => /\ par.pc = "done"
           /\ \A i \in 1..Len(par.texts0) : BlindingExpected(i)

\* what holds of the code: the same when no field to work on is 0
BlindingFillsNonZero ==
    (par.pc \in {"done", "error"} /\ par.coprime
        /\ \A i \in 1..Len(par.texts0) :
                (IF par.mode = "signing_oracle" THEN par.texts0[i].plain
                 ELSE par.texts0[i].cipher) # 0)
        => /\ par.pc = "done"
           /\ \A i \in 1..Len(par.texts0) : BlindingExpected(i)

(***************************************************************************)
(* faulty on keys that hold one message/signature pair or two signatures.  *)
(***************************************************************************)
\* <<p, q, e>> of the keys attacked
FaultyKeys == { <<3, 5, 3>>, <<3, 7, 5>>, <<5, 7, 5>>, <<3, 11, 3>> }

InitFaulty ==
    /\ \E t \in FaultyKeys :
        LET n == t[1] * t[2]
            fields == (0..(n - 1)) \cup {Absent}
        IN  /\ key = [p |-> t[1], q |-> t[2]]
            /\ \E len \in {1, 2} :
                /\ keys = <<[PublicKey(n, t[3], "k") EXCEPT
                                !.texts = [i \in 1..len |-> i]]>>
                /\ \/ /\ len = 1
                      /\ \E c \in fields, m \in fields :
                            /\ c # Absent \/ m # Absent
                            /\ heap = <<[cipher |-> c, plain |-> m]>>
                   \/ /\ len = 2
                      /\ \E c1 \in 0..(n - 1), c2 \in 0..(n - 1) :
                            heap = <<[NewDict EXCEPT !.cipher = c1],
                                     [NewDict EXCEPT !.cipher = c2]>>
    /\ pc = "idle"
    /\ args = NoArgs
    /\ dec = NoDec
    /\ fk = NoFk
    /\ orc = NoOrc
    /\ result = None
    /\ made = <<Given>>
    /\ par = NoPar
    /\ ret = NoRet

NextFaulty == FaultyCall

SpecFaulty == InitFaulty /\ [][NextFaulty]_vars

\* the first text pair is a faulty CRT signature: right modulo one prime of
\* n, wrong modulo the other
FaultySignature ==
    LET pair == heap[1]
        right(f) == pair.cipher # Absent /\ pair.plain # Absent
                    /\ (Power(pair.cipher, keys[1].e) - pair.plain) % f = 0
    IN  \/ right(key.p) /\ ~right(key.q)
        \/ right(key.q) /\ ~right(key.p)

\* some text pair or some pair of signatures of the key gives a divisor of n
\* strictly between 1 and n
FaultyDivisorExists ==
    LET n == keys[1].n
        proper(x) == gcd(x, n) # 1 /\ gcd(x, n) # n
    IN  \/ \E i \in 1..Len(keys[1].texts) :
            /\ heap[i].cipher # Absent /\ heap[i].plain # Absent
            /\ proper(Power(heap[i].cipher, keys[1].e) - heap[i].plain)
        \/ \E i \in 1..Len(keys[1].texts), j \in 1..Len(keys[1].texts) :
            /\ i < j
            /\ heap[i].cipher # Absent /\ heap[j].cipher # Absent
            /\ proper(heap[i].cipher - heap[j].cipher)

\* C13: for a pair {plain: m, cipher: s} with s a faulty CRT signature,
\* faulty(key) returns a private key with the same n and e and the factors
\* {p, q}; whenever faulty returns a key its factor is a divisor of n
\* strictly between 1 and n; when no pair and no pair of signatures gives
\* such a divisor it returns None.
C13_FaultyRecoversFactors ==
    ret.by = "faulty" =>
        /\ ~ret.raised
        /\ FaultySignature =>
              /\ Len(ret.keys) = 1
              /\ ret.keys[1].n = keys[1].n
              /\ ret.keys[1].e = keys[1].e
              /\ {ret.keys[1].p, ret.keys[1].q} = {key.p, key.q}
        /\ \A i \in 1..Len(ret.keys) :
              /\ ret.keys[i].p > 1 /\ ret.keys[i].p < keys[1].n
              /\ keys[1].n % ret.keys[i].p = 0
        /\ ~FaultyDivisorExists => ret.keys = <<>>

\* faulty has returned a key for a faulty signature
C13_Witness ==
    /\ ret.by = "faulty"
    /\ FaultySignature
    /\ Len(ret.keys) = 1

(***************************************************************************)
(* The text calls of one key with arguments of every kind.                 *)
(***************************************************************************)
\* 0, a positive and a negative number, the string 'ab' (b2i gives 24930),
\* an object b2i rejects, and None
TextArgs ==
    {Number(0), Number(2), Number(-3), [type |-> "str", v |-> 24930],
     [type |-> "obj", v |-> 0], [type |-> "none", v |-> 0]}

InitTexts ==
    /\ keys = <<PublicKey(15, 3, "k")>>
    /\ heap = <<>>
    /\ made = <<Given>>
    /\ key = CHOOSE K \in Keys : TRUE
    /\ pc = "idle"
    /\ args = NoArgs
    /\ dec = NoDec
    /\ fk = NoFk
    /\ orc = NoOrc
    /\ result = None
    /\ par = NoPar
    /\ ret = NoRet

\* key.add_ciphertext(ciphertext, position) with any argument
AddCiphertextArg ==
    /\ \E a \in TextArgs, position \in Positions : add_ciphertext(1, a, position)
    /\ UNCHANGED <<made, par, ret>>
    /\ UNCHANGED cbcVars

\* key.add_plaintext(plaintext, position) with any argument
AddPlaintextArg ==
    /\ \E a \in TextArgs, position \in Positions : add_plaintext(1, a, position)
    /\ UNCHANGED <<made, par, ret>>
    /\ UNCHANGED cbcVars

\* key.add_text_pair(ciphertext, plaintext) with any arguments
AddTextPairArg ==
    /\ \E c \in TextArgs, m \in TextArgs : add_text_pair(1, c, m)
    /\ UNCHANGED <<made, par, ret>>
    /\ UNCHANGED cbcVars

NextTexts ==
    \/ AddCiphertextArg
    \/ AddPlaintextArg
    \/ AddTextPairArg
    \/ ClearTexts

SpecTexts == InitTexts /\ [][NextTexts]_vars

\* C14: after any sequence of add_ciphertext, add_plaintext, add_text_pair
\* and clear_texts calls with any arguments (0 and non-numeric ones
\* included) every element of key.texts has at least one of 'cipher' and
\* 'plain', and each field present holds a nonnegative integer.
C14_TextPairsWellFormed ==
    \A i \in 1..Len(keys[1].texts) :
        LET pair == heap[keys[1].texts[i]]
        IN  /\ pair.cipher # Absent \/ pair.plain # Absent
            /\ pair.cipher # Absent => pair.cipher >= 0
            /\ pair.plain # Absent => pair.plain >= 0

\* every element of key.texts has a field
TextPairsNotEmpty ==
    \A i \in 1..Len(keys[1].texts) :
        LET pair == heap[keys[1].texts[i]]
        IN  pair.cipher # Absent \/ pair.plain # Absent

(***************************************************************************)
(* RSAKey(n, e, d, p, q) on private material that may contradict n.        *)
(***************************************************************************)
\* (n, e, d) of two keys and the values given for p and q (0 is None)
ConstructKeys == { <<15, 3, 3>>, <<21, 5, 5>> }
ConstructFactors == {0, 2, 3, 4, 5, 7}

InitConstruct ==
    /\ \E t \in ConstructKeys, d \in {0, 1}, p \in ConstructFactors,
          q \in ConstructFactors :
        key = [n |-> t[1], e |-> t[2], d |-> d * t[3], p |-> p, q |-> q]
    /\ keys = <<>>
    /\ heap = <<>>
    /\ made = <<>>
    /\ pc = "idle"
    /\ args = NoArgs
    /\ dec = NoDec
    /\ fk = NoFk
    /\ orc = NoOrc
    /\ result = None
    /\ par = NoPar
    /\ ret = NoRet

\* RSAKey(n, e, d, p, q): the key constructed, or the exception raised
ConstructCall ==
    /\ ret.by = "none"
    /\ \E o \in IF RSAKeyFails(key.n, key.e, key.d, key.p, key.q) THEN {Raised}
                ELSE { Returned(<<k>>) :
                       k \in RSAKey(key.n, key.e, key.d, key.p, key.q, <<>>, "k") } :
        /\ ret' = [raised |-> o.raised, keys |-> o.keys, by |-> "RSAKey",
                   on |-> <<>>]
        /\ keys' = o.keys
        /\ made' = [i \in 1..Len(o.keys) |-> Given]
    /\ UNCHANGED <<heap, par>>
    /\ UNCHANGED cbcVars

NextConstruct == ConstructCall

SpecConstruct == InitConstruct /\ [][NextConstruct]_vars

\* the private material given contradicts n
Contradictory ==
    \/ key.p # 0 /\ key.n % key.p # 0
    \/ key.q # 0 /\ key.n % key.q # 0
    \/ key.p # 0 /\ key.q # 0 /\ key.p * key.q # key.n

\* C15: constructing an RSAKey from a p or q that does not divide n, or from
\* p and q with p*q != n, fails with an error; no key whose stored p and q
\* do not multiply to n is produced, and a given q is never replaced.
C15_ContradictoryKeyRejected ==
    ret.by = "RSAKey" =>
        /\ Contradictory => ret.raised
        /\ \A i \in 1..Len(ret.keys) :
            /\ has_private(ret.keys[i]) => ret.keys[i].p * ret.keys[i].q = key.n
            /\ key.q # 0 => ret.keys[i].q = key.q

\* what holds of the code: material that does not contradict n gives a key
\* with p*q = n that keeps the given p and q
ConsistentKeyConstructed ==
    (ret.by = "RSAKey" /\ ~Contradictory) =>
        /\ ~ret.raised
        /\ \A i \in 1..Len(ret.keys) :
            /\ has_private(ret.keys[i]) => ret.keys[i].p * ret.keys[i].q = key.n
            /\ key.q # 0 => ret.keys[i].q = key.q
            /\ key.p # 0 => ret.keys[i].p = key.p

(***************************************************************************)
(* Claims about the oracle queries of decrypt                              *)
(***************************************************************************)
\* a step that sends the confirmation of the guess accepted last
ConfirmationSent == dec.pc = "confirm" /\ orc'.n = orc.n + 1

\* byte B-2 of the modified block (the block before the last) of a query
ByteLeftOfLast(sent) == sent[Len(sent) - block_size - 1]

\* C16: in the non-is_correct path at the last position of a block every
\* accepted guess is confirmed by a second query that differs from the
\* accepted one in byte B-2 of the modified block, whatever value that byte
\* had; so a guess accepted only because the plaintext block then ended in
\* 02 02, 03 03 03, ... is rejected and never recorded.
C16_ConfirmationRejectsLongPadding ==
    [][ConfirmationSent =>
          /\ ByteLeftOfLast(orc'.sent) # ByteLeftOfLast(orc.sent)
          /\ orc'.correct =>
                LET p == CBCDecrypt(key, chunks(orc.sent, block_size))
                IN  p[Len(p)] = 1]_vars

\* what holds of the code: the same when byte B-2 of the modified block is
\* not 'A'
ConfirmationRejectsUnlessA ==
    [][(ConfirmationSent /\ ByteLeftOfLast(orc.sent) # CharA) =>
          /\ ByteLeftOfLast(orc'.sent) # ByteLeftOfLast(orc.sent)
          /\ orc'.correct =>
                LET p == CBCDecrypt(key, chunks(orc.sent, block_size))
                IN  p[Len(p)] = 1]_vars

\* the oracle call of this step is the first of its decrypt call: the first
\* of all, or the first of a later decrypt call made by fake_ciphertext,
\* whose string is shorter than the one of the call before
FirstCallOfDecrypt ==
    \/ orc.n = 0
    \/ args.op = "fake" /\ Len(orc'.sent) # Len(orc.sent)

\* C17: during one decrypt call the oracle calls form one strict sequence:
\* the first receives previous_resp = None and every later one, guesses and
\* confirmations alike, across positions and blocks, receives the response
\* returned by the call just before it.
C17_PreviousRespThreaded ==
    [][orc'.n = orc.n + 1 =>
          orc'.previous_resp =
              IF FirstCallOfDecrypt THEN NoneResp ELSE orc.resp]_vars

\* a confirmation in a block before the last one of a decrypt call has
\* received the response of the guess before it
C17_Witness ==
    /\ args.op = "decrypt"
    /\ orc.kind = "confirm"
    /\ orc.n > 1
    /\ orc.previous_resp = orc.n - 1
    /\ Len(orc.sent) < Len(args.iv) + Len(args.ciphertext)

(***************************************************************************)
(* bleichenbacher_signature_forgery, suffix variant.  The digest of the    *)
(* plaintext is the environment's: the prefix 00 01 FF 00 || ASN1 || H is  *)
(* drawn as a string of len bytes with the value prefix.                   *)
(***************************************************************************)
\* key.size: int(math.ceil(math.log(n, 2) / 8.0) * 8)
RECURSIVE SizeFrom(_, _)
SizeFrom(n, bits) == IF Power(2, bits) >= n THEN bits ELSE SizeFrom(n, bits + 8)

size(n) == SizeFrom(n, 8)

\* i2b(x, size=size)[:len] as a number, for x below 2^size
TestPrefix(x, bits, len) == x \div Power(256, bits \div 8 - len)

\* lines 618-627: the candidates tested from round_error on and the
\* signature found, if any
RECURSIVE SuffixScan(_, _, _, _, _)
SuffixScan(k, plaintext, prefix, len, round_error) ==
    IF round_error >= 5 THEN [tried |-> <<>>, found |-> <<>>]
    ELSE LET signature == iroot(plaintext, k.e).root + round_error
             test_prefix == TestPrefix(pow_mod(signature, k.e, k.n),
                                       size(k.n), len)
         IN  IF test_prefix = prefix
             THEN [tried |-> <<signature>>, found |-> <<signature>>]
             ELSE LET rest == SuffixScan(k, plaintext, prefix, len,
                                         round_error + 1)
                  IN  [tried |-> <<signature>> \o rest.tried,
                       found |-> rest.found]

\* 16-bit moduli with e = 3; prefixes of one byte and of two bytes, below
\* the modulus once zero-extended
ForgeModuli == {197 * 227, 173 * 233}
ForgePrefixes ==
    { <<1, v>> : v \in 0..150 } \cup { <<2, v>> : v \in 0..600 }

InitForge ==
    /\ \E n \in ForgeModuli, t \in ForgePrefixes, c \in {Absent, 2} :
        /\ key = [len |-> t[1], prefix |-> t[2]]
        /\ keys = <<[PublicKey(n, 3, "k") EXCEPT !.texts = <<1>>]>>
        /\ heap = <<[cipher |-> c, plain |-> 2]>>
    /\ made = <<Given>>
    /\ pc = "idle"
    /\ args = NoArgs
    /\ dec = NoDec
    /\ fk = NoFk
    /\ orc = NoOrc
    /\ result = None
    /\ par = NoPar
    /\ ret = NoRet

\* bleichenbacher_signature_forgery(key, garbage='suffix') on a key with one
\* text pair: lines 609-633
ForgeSuffixCall ==
    /\ ret.by = "none"
    /\ LET k == keys[1]
           pair == heap[k.texts[1]]
           plaintext == key.prefix * Power(256, size(k.n) \div 8 - key.len)
       IN  IF pair.plain # Absent /\ pair.cipher = Absent
           THEN \E scan \in {SuffixScan(k, plaintext, key.prefix, key.len, -5)} :
                  /\ heap' = IF scan.found # <<>>
                             THEN [heap EXCEPT ![k.texts[1]].cipher = scan.found[1]]
                             ELSE heap
                  /\ ret' = [raised |-> FALSE, keys |-> <<>>, on |-> <<1>>,
                             by |-> "bleichenbacher_signature_forgery",
                             tried |-> scan.tried,
                             value |-> IF scan.found # <<>>
                                       THEN {<<0, scan.found[1]>>} ELSE {}]
           ELSE /\ heap' = heap
                /\ ret' = [raised |-> FALSE, keys |-> <<>>, on |-> <<1>>,
                           by |-> "bleichenbacher_signature_forgery",
                           tried |-> <<>>, value |-> {}]
    /\ UNCHANGED <<keys, made, par>>
    /\ UNCHANGED cbcVars

NextForge == ForgeSuffixCall

SpecForge == InitForge /\ [][NextForge]_vars

\* the zero-extended prefix and the floor of its e-th root
ForgeRoot ==
    iroot(key.prefix * Power(256, size(keys[1].n) \div 8 - key.len),
          keys[1].e).root

\* c^e mod n, encoded in size/8 bytes, begins with the prefix
Qualifies(c) ==
    pow_mod(c, keys[1].e, keys[1].n)
        \div Power(256, size(keys[1].n) \div 8 - key.len) = key.prefix

\* the deltas of [lo, hi] up to the first whose candidate qualifies
DeltasTried(lo, hi) ==
    { d \in lo..hi : \A x \in lo..(d - 1) : ~Qualifies(ForgeRoot + x) }

\* the call worked on the text pair (it had 'plain' and no 'cipher')
Forged ==
    /\ ret.by = "bleichenbacher_signature_forgery"
    /\ ret.tried # <<>>

\* C18: the candidates tried are s + delta for every delta in [-5, 5] in
\* increasing order; the signature stored is the first candidate that
\* qualifies, and when no delta in [-5, 5] qualifies the pair gets no
\* 'cipher' and no entry in the result.
C18_SuffixCandidates ==
    Forged =>
        /\ ret.tried = [i \in 1..Cardinality(DeltasTried(-5, 5)) |->
                           ForgeRoot - 6 + i]
        /\ IF \E d \in -5..5 : Qualifies(ForgeRoot + d)
           THEN /\ Qualifies(heap[1].cipher)
                /\ heap[1].cipher = ret.tried[Len(ret.tried)]
                /\ ret.value = {<<0, heap[1].cipher>>}
           ELSE heap[1].cipher = Absent /\ ret.value = {}

\* what holds of the code: the same with delta in [-5, 4]
SuffixCandidatesToFour ==
    Forged =>
        /\ ret.tried = [i \in 1..Cardinality(DeltasTried(-5, 4)) |->
                           ForgeRoot - 6 + i]
        /\ IF \E d \in -5..5 : Qualifies(ForgeRoot + d)
           THEN /\ Qualifies(heap[1].cipher)
                /\ heap[1].cipher = ret.tried[Len(ret.tried)]
                /\ ret.value = {<<0, heap[1].cipher>>}
           ELSE heap[1].cipher = Absent /\ ret.value = {}


\* a pair whose signature was found by the scan
SuffixFound == Forged /\ ret.value # {} /\ Len(ret.tried) > 6


(***************************************************************************)
(* hastad on keys that share a modulus: three keys with e = 3 over two     *)
(* moduli large enough for a cube to lie beyond max_times moduli.          *)
(***************************************************************************)
RepeatModuli == {145, 187}
RepeatMsgs == {2, 27, 28}

InitRepeat ==
    /\ \E n \in [1..3 -> RepeatModuli], m \in [1..3 -> RepeatMsgs] :
        /\ key = [m |-> m]
        /\ keys = [i \in 1..3 |->
                     [PublicKey(n[i], 3, IdOf(i)) EXCEPT !.texts = <<i>>]]
        /\ heap = [i \in 1..3 |->
                     [NewDict EXCEPT !.cipher = pow_mod(m[i], 3, n[i])]]
        /\ made = [i \in 1..3 |-> Given]
    /\ pc = "idle"
    /\ args = NoArgs
    /\ dec = NoDec
    /\ fk = NoFk
    /\ orc = NoOrc
    /\ result = None
    /\ par = NoPar
    /\ ret = NoRet

SpecRepeat == InitRepeat /\ [][NextHastad]_vars

\* the pairs with unique modulus and unique ciphertext
UniquePairs ==
    HastadSelect(keys, heap, keys[1].e, 1,
        [ciphertexts |-> <<>>, modules |-> <<>>, correct_keys |-> <<>>])

\* fewer than e such pairs remain and small_e_msg recovers nothing for any
\* key
TooFewPairs ==
    /\ Len(UniquePairs.modules) < keys[1].e
    /\ \A i \in 1..Len(keys) : small_e_msg(keys[i], heap) = <<>>

\* C19: when fewer than e pairs with unique modulus and unique ciphertext
\* remain and small_e_msg recovers nothing for any key, hastad returns None
\* and writes a plaintext to no key.
C19_HastadNeedsEPairs ==
    [][TooFewPairs => ret'.value = Absent /\ heap' = heap]_vars

\* what holds of the code: with too few pairs the call returns None or the
\* exact e-th root of the CRT over the pairs that remain
HastadFewPairsRoot ==
    [][TooFewPairs =>
          \/ ret'.value = Absent /\ heap' = heap
          \/ ret'.value = iroot(crt(UniquePairs.ciphertexts,
                                    UniquePairs.modules), keys[1].e).root]_vars

\* a call on too few pairs that returns None
FewPairsNone == ret.by = "hastad" /\ ret.value = Absent /\ ~ret.raised


(***************************************************************************)
(* bleichenbacher_signature_forgery, middle variant: the suffix of the     *)
(* signature, built one bit at a time (lines 641-651).  plaintext_suffix   *)
(* is 00 || ASN1 || H; its digest is the environment's, so the suffix is   *)
(* drawn as a string of len bytes with the value suffix.                   *)
(***************************************************************************)
\* a * b modulo 2^bits for a, b below 2^bits and bits <= 16, by the bytes
\* of a
MulLow(a, b, bits) ==
    ((((a \div 256) * b) % 256) * 256 + (a % 256) * b) % Power(2, bits)

\* (x & (1 << b)) >> b
BitOf(x, b) == (x \div Power(2, b)) % 2

\* the bits of signature_suffix ** 3 below bits: those of the cube modulo
\* 2^bits
CubeLow(signature_suffix, bits) ==
    MulLow(MulLow(signature_suffix, signature_suffix, bits),
           signature_suffix, bits)

\* the loop body that leaves signature_suffix as it is
SuffixStepKeep(signature_suffix, suffix, b, bits) == signature_suffix

\* lines 649-650: the body of `for b in range(len(plaintext_suffix)*8)`
SuffixStep(signature_suffix, suffix, b, bits) ==
    IF BitOf(CubeLow(signature_suffix, bits), b) # BitOf(suffix, b)
    THEN IF BitOf(signature_suffix, b) = 1 THEN signature_suffix
         ELSE signature_suffix + Power(2, b)
    ELSE signature_suffix

\* suffixes of one byte and of two bytes, odd and even
SuffixInputs ==
    { <<1, v>> : v \in 0..255 } \cup { <<2, v>> : v \in 0..2047 }

InitSuffix ==
    /\ \E t \in SuffixInputs :
        /\ key = [len |-> t[1], suffix |-> t[2]]
        /\ par = [pc |-> "start", b |-> 0, signature_suffix |-> 0]
    /\ keys = <<>>
    /\ heap = <<>>
    /\ made = <<>>
    /\ pc = "idle"
    /\ args = NoArgs
    /\ dec = NoDec
    /\ fk = NoFk
    /\ orc = NoOrc
    /\ result = None
    /\ ret = NoRet

\* lines 642-647: an even suffix is given up, an odd one starts from 0b1
SuffixStart ==
    /\ par.pc = "start"
    /\ par' = IF key.suffix % 2 # 1
              THEN [par EXCEPT !.pc = "continue"]
              ELSE [par EXCEPT !.pc = "bits", !.signature_suffix = 1]
    /\ UNCHANGED <<key, keys, heap, made, ret>>
    /\ UNCHANGED cbcVars

\* one round of the loop over b
SuffixBit ==
    /\ par.pc = "bits"
    /\ par.b < key.len * 8
    /\ par' = [par EXCEPT
                 !.b = par.b + 1,
                 !.signature_suffix =
                     SuffixStep(par.signature_suffix, key.suffix, par.b,
                                key.len * 8)]
    /\ UNCHANGED <<key, keys, heap, made, ret>>
    /\ UNCHANGED cbcVars

NextSuffix == SuffixStart \/ SuffixBit

SpecSuffix == InitSuffix /\ [][NextSuffix]_vars

\* the low b bits of x
LowBits(x, b) == x % Power(2, b)

\* C20: for every odd suffix of L bytes the construction started from 1
\* keeps the low bits of the cube equal to those of the suffix: once the
\* bits below b are processed the low b bits of signature_suffix^3 are the
\* low b bits of the suffix (so the cube is the suffix modulo 2^(8L) at the
\* end), and a round never changes a bit of the cube below its own.
C20_SuffixCubeRoot ==
    /\ [](par.pc = "bits" =>
             LowBits(CubeLow(par.signature_suffix, key.len * 8), par.b)
                 = LowBits(key.suffix, par.b))
    /\ [][SuffixBit =>
             LowBits(CubeLow(par'.signature_suffix, key.len * 8), par.b)
                 = LowBits(CubeLow(par.signature_suffix, key.len * 8), par.b)]_vars

\* a suffix of two bytes done, with bits set in both bytes of the root
C20_Witness ==
    /\ par.pc = "bits"
    /\ key.len = 2
    /\ par.b = 16
    /\ par.signature_suffix > 1000
    /\ par.signature_suffix % 256 > 1
    /\ CubeLow(par.signature_suffix, 16) = key.suffix


(***************************************************************************)
(* common_primes on three keys drawn from the pool of small RSA keys.      *)
(***************************************************************************)
InitTrio ==
    /\ \E a \in PoolKeys, b \in PoolKeys, c \in PoolKeys :
        keys = <<PublicKey(a[1], a[2], "a"), PublicKey(b[1], b[2], "b"),
                 PublicKey(c[1], c[2], "c")>>
    /\ heap = <<>>
    /\ made = <<Given, Given, Given>>
    /\ key = CHOOSE K \in Keys : TRUE
    /\ pc = "idle"
    /\ args = NoArgs
    /\ dec = NoDec
    /\ fk = NoFk
    /\ orc = NoOrc
    /\ result = None
    /\ par = NoPar
    /\ ret = NoRet

\* common_primes(keys) on the three keys given; the keys returned join the
\* store
CommonPrimesTrio ==
    /\ ret.by = "none"
    /\ \E o \in common_primes(keys, <<1, 2, 3>>, Len(keys) + 1) :
        /\ keys' = keys \o o.keys
        /\ made' = made \o [i \in 1..Len(o.keys) |->
                               [by |-> "common_primes", from |-> 0]]
        /\ ret' = [raised |-> o.raised, keys |-> o.keys,
                   by |-> "common_primes", on |-> <<1, 2, 3>>]
    /\ UNCHANGED <<heap, par>>
    /\ UNCHANGED cbcVars

NextTrio == CommonPrimesTrio

SpecTrio == InitTrio /\ [][NextTrio]_vars

\* the source key i has k keys derived from it in the returned list
DerivedFrom(i) ==
    { x \in 1..Len(ret.keys) :
        ret.keys[x].identifier = keys[i].identifier \o "-private" }

\* C21: common_primes returns at most one derived private key per source
\* key, also for three keys that pairwise share a prime: no source key
\* appears more than once in the returned list.
C21_OneKeyPerSource ==
    (ret.by = "common_primes" /\ ~ret.raised) =>
        \A i \in 1..3 : Cardinality(DerivedFrom(i)) <= 1

\* what holds of the code: a source key is derived once for every pair in
\* which its modulus shares a prime with the other key's
TrioPairsOf(i) ==
    { j \in (1..3) \ {i} : gcd(keys[i].n, keys[j].n) # 1 }

OneKeyPerPair ==
    (ret.by = "common_primes" /\ ~ret.raised) =>
        \A i \in 1..3 : Cardinality(DerivedFrom(i)) = Cardinality(TrioPairsOf(i))

====
